---- MODULE Spec2Model ----
(***************************************************************************)
(* Model of chuk_mcp_geocoder.core.nominatim.NominatimClient: the cache    *)
(* key derivation, the TTL/LRU response cache, the rate limiter and the    *)
(* retrying request executor, run by concurrent asyncio tasks.             *)
(*                                                                         *)
(* Time is counted in whole seconds.  One clock `now` stands for both      *)
(* time.monotonic() (rate limiter) and time.time() (cache timestamps).     *)
(* Strings are sequences of one-character strings.                         *)
(***************************************************************************)
EXTENDS Integers, Sequences, FiniteSets, TLC

(***************************************************************************)
(* Configuration (constants.py, class NominatimConfig)                     *)
(***************************************************************************)
\* NominatimConfig.RATE_LIMIT_SECONDS = 1.0
RATE_LIMIT_SECONDS == 1
\* NominatimConfig.MAX_RETRIES = 3
MAX_RETRIES == 3
\* NominatimConfig.RETRY_BASE_DELAY = 2.0
RETRY_BASE_DELAY == 2
\* NominatimConfig.RETRYABLE_STATUS_CODES = (429, 503)
RETRYABLE_STATUS_CODES == {429, 503}
\* NominatimConfig.CACHE_TTL_SECONDS (3600 in the source), scaled down
CACHE_TTL_SECONDS == 2
\* NominatimConfig.CACHE_MAX_SIZE (1000 in the source), scaled down
CACHE_MAX_SIZE == 2

(***************************************************************************)
(* Bounds of the model                                                     *)
(***************************************************************************)
\* last second the clock reaches while no request is running
MaxTime == 6
\* last second of the clock in the cache-only specification
MaxCacheTime == 3
\* most requests the tasks start, all together
MaxReqs == 3
\* NominatimConfig.TIMEOUT_SECONDS (30.0 in the source), scaled down: the
\* longest a client.get stays unanswered
TIMEOUT_SECONDS == 1
\* the longest an asyncio.sleep overruns its delay
MaxLate == 0

\* what the environment does in one run: the number of requests the tasks
\* start and the number of 429 and 503 answers the service gives
Scenarios ==
    { [reqs |-> MaxReqs,     faults |-> 0],
      [reqs |-> MaxReqs - 1, faults |-> 1],
      [reqs |-> 1,           faults |-> MAX_RETRIES + 1] }

\* the concurrent callers (asyncio tasks sharing one client)
Procs == {1, 2}
\* HTTP statuses the service answers with
Statuses == {200, 429, 503, 500}
\* JSON bodies of a 200 answer: a single object, or a sequence
Bodies == {"obj", "list"}
\* Python's None
None == "None"

(***************************************************************************)
(* Strings: str.lower(), str.split(), " ".join()                           *)
(***************************************************************************)
\* the characters of the modelled strings
Chars == {"A", "a", "b", " ", "\t"}

\* str.lower() on one character
LowerChar(c) == CASE c = "A" -> "a" [] c = "B" -> "b" [] OTHER -> c

\* str.lower()
Lower(s) == [i \in 1..Len(s) |-> LowerChar(s[i])]

\* the characters str.split() separates on
IsSpace(c) == c \in {" ", "\t", "\n"}

RECURSIVE SplitFrom(_, _, _)
\* str.split() with no argument, scanning s from position i with the
\* current word cur: maximal runs of non-whitespace characters
SplitFrom(s, i, cur) ==
    IF i > Len(s)
    THEN IF cur = <<>> THEN <<>> ELSE <<cur>>
    ELSE IF IsSpace(s[i])
         THEN IF cur = <<>> THEN SplitFrom(s, i + 1, <<>>)
                            ELSE <<cur>> \o SplitFrom(s, i + 1, <<>>)
         ELSE SplitFrom(s, i + 1, Append(cur, s[i]))

\* str.split()
Split(s) == SplitFrom(s, 1, <<>>)

RECURSIVE Join(_)
\* " ".join(words)
Join(words) ==
    IF words = <<>> THEN <<>>
    ELSE IF Len(words) = 1 THEN words[1]
    ELSE words[1] \o <<" ">> \o Join(Tail(words))

\* a faulty normalisation: the case of the letters is kept
NormalizeStrKeepCase(s) == Join(Split(s))

\* " ".join(v.lower().split())  (nominatim.py line 82)
NormalizeStr(s) == Join(Split(Lower(s)))

(***************************************************************************)
(* Parameters and the cache key                                            *)
(*                                                                         *)
(* A parameter mapping is a sequence of entries in insertion order, as a   *)
(* Python dict; an entry is [name, isStr, v] where v is the text of the    *)
(* value (for a number: its digits) and isStr says whether the Python      *)
(* value is a str.                                                         *)
(***************************************************************************)
\* the parameter names in the order json.dumps(sort_keys=True) emits them
SortedNames ==
    <<"accept-language", "addressdetails", "format", "lat", "limit", "lon",
      "osm_ids", "q", "zoom">>

\* whether the mapping has the name
HasParam(params, name) == \E i \in 1..Len(params) : params[i].name = name

\* dict.setdefault(name, value) with a str value
SetDefault(params, name, text) ==
    IF HasParam(params, name) THEN params
    ELSE Append(params, [name |-> name, isStr |-> TRUE, v |-> text])

\* the loop of _cache_key: every str value normalized, others kept
NormalizeParams(params) ==
    [i \in 1..Len(params) |->
        IF params[i].isStr
        THEN [params[i] EXCEPT !.v = NormalizeStr(params[i].v)]
        ELSE params[i]]

\* json.dumps of one value: a str is quoted, a number is not
JsonValue(e) == IF e.isStr THEN <<"\"">> \o e.v \o <<"\"">> ELSE e.v

RECURSIVE DumpsFrom(_, _)
\* json.dumps(normalized, sort_keys=True) from the n-th sorted name on:
\* the (name, value text) pairs in sorted name order
DumpsFrom(params, n) ==
    IF n > Len(SortedNames) THEN <<>>
    ELSE LET name == SortedNames[n]
             here == {i \in 1..Len(params) : params[i].name = name}
         IN  IF here = {} THEN DumpsFrom(params, n + 1)
             ELSE LET i == CHOOSE j \in here : TRUE
                  IN  <<<<name, JsonValue(params[i])>>>>
                      \o DumpsFrom(params, n + 1)

\* json.dumps(normalized, sort_keys=True)
JsonDumps(params) == DumpsFrom(params, 1)

\* hashlib.md5(raw).hexdigest(): a digest taken to be collision-free on
\* the modelled inputs, so it is represented by the text it digests
Md5(raw) == <<"md5", raw>>

\* NominatimClient._cache_key
cache_key(endpoint, params) ==
    Md5(<<endpoint, JsonDumps(NormalizeParams(params))>>)

(***************************************************************************)
(* The three endpoints' parameter mappings                                 *)
(***************************************************************************)
\* a str-valued entry
StrParam(name, text) == [name |-> name, isStr |-> TRUE, v |-> text]

\* a number-valued entry (digits is the number's JSON text)
NumParam(name, digits) == [name |-> name, isStr |-> FALSE, v |-> digits]

\* NominatimClient.search: params = {"q": query, "limit": limit}
SearchParams(query, limit) == <<StrParam("q", query), NumParam("limit", limit)>>

\* NominatimClient.reverse: params = {"lat": lat, "lon": lon, "zoom": zoom}
ReverseParams(lat, lon, zoom) ==
    <<NumParam("lat", lat), NumParam("lon", lon), NumParam("zoom", zoom)>>

\* NominatimClient.lookup: params = {"osm_ids": ",".join(osm_ids)}
LookupParams(ids) == <<StrParam("osm_ids", ids)>>

\* the defaults _request adds before it derives the key (no email set)
WithDefaults(params) ==
    SetDefault(SetDefault(params, "format", <<"j", "s", "o", "n", "v", "2">>),
               "addressdetails", <<"1">>)

\* the calls the modelled tasks make: two searches that differ only in
\* case and surrounding whitespace, a reverse and a lookup
Calls ==
    << [endpoint |-> "search",  params |-> SearchParams(<<"A", "b">>, <<"5">>)],
       [endpoint |-> "search",  params |-> SearchParams(<<" ", "a", "B", "\t">>, <<"5">>)],
       [endpoint |-> "reverse", params |-> ReverseParams(<<"1">>, <<"2">>, <<"1", "8">>)],
       [endpoint |-> "lookup",  params |-> LookupParams(<<"R", "1">>)] >>

\* the key _request derives for the n-th call
KeyOfCall(n) == cache_key(Calls[n].endpoint, WithDefaults(Calls[n].params))

\* the keys the modelled calls use
CallKeys == {KeyOfCall(n) : n \in 1..Len(Calls)}

(***************************************************************************)
(* The response cache: an OrderedDict, oldest entry first                  *)
(***************************************************************************)
\* CacheEntry(data, timestamp), stored under key
Entry(key, data, timestamp) ==
    [key |-> key, data |-> data, timestamp |-> timestamp]

\* key in self._cache
InCache(c, key) == \E i \in 1..Len(c) : c[i].key = key

\* the position of key
IndexOf(c, key) == CHOOSE i \in 1..Len(c) : c[i].key = key

\* del self._cache[key]
Delete(c, key) ==
    LET i == IndexOf(c, key)
    IN  SubSeq(c, 1, i - 1) \o SubSeq(c, i + 1, Len(c))

\* self._cache.move_to_end(key)
MoveToEnd(c, key) == Append(Delete(c, key), c[IndexOf(c, key)])

\* a faulty _cache_get: the comparison with the time to live is reversed
cache_get_reversed(c, key, t) ==
    IF ~InCache(c, key)
    THEN [value |-> None, cache |-> c]
    ELSE LET entry == c[IndexOf(c, key)]
         IN  IF t - entry.timestamp < CACHE_TTL_SECONDS
             THEN [value |-> None, cache |-> Delete(c, key)]
             ELSE [value |-> entry.data, cache |-> MoveToEnd(c, key)]

\* a faulty _cache_get: a hit does not move the entry to the end
cache_get_no_move(c, key, t) ==
    IF ~InCache(c, key)
    THEN [value |-> None, cache |-> c]
    ELSE LET entry == c[IndexOf(c, key)]
         IN  IF t - entry.timestamp > CACHE_TTL_SECONDS
             THEN [value |-> None, cache |-> Delete(c, key)]
             ELSE [value |-> entry.data, cache |-> c]

\* a faulty _cache_get: an expired entry is reported absent but left in place
cache_get_keep_expired(c, key, t) ==
    IF ~InCache(c, key)
    THEN [value |-> None, cache |-> c]
    ELSE LET entry == c[IndexOf(c, key)]
         IN  IF t - entry.timestamp > CACHE_TTL_SECONDS
             THEN [value |-> None, cache |-> c]
             ELSE [value |-> entry.data, cache |-> MoveToEnd(c, key)]

\* a faulty _cache_get: a hit stores the entry anew, with the lookup time
cache_get_refresh(c, key, t) ==
    IF ~InCache(c, key)
    THEN [value |-> None, cache |-> c]
    ELSE LET entry == c[IndexOf(c, key)]
         IN  IF t - entry.timestamp > CACHE_TTL_SECONDS
             THEN [value |-> None, cache |-> Delete(c, key)]
             ELSE [value |-> entry.data,
                   cache |-> Append(Delete(c, key), Entry(key, entry.data, t))]

\* NominatimClient._cache_get at time t: the value returned and the cache left
cache_get(c, key, t) ==
    IF ~InCache(c, key)
    THEN [value |-> None, cache |-> c]
    ELSE LET entry == c[IndexOf(c, key)]
         IN  IF t - entry.timestamp > CACHE_TTL_SECONDS
             THEN [value |-> None, cache |-> Delete(c, key)]
             ELSE [value |-> entry.data, cache |-> MoveToEnd(c, key)]

\* a faulty _cache_put: a new key is stored without evicting at capacity
cache_put_no_evict(c, key, data, t) ==
    IF InCache(c, key)
    THEN LET m == MoveToEnd(c, key)
         IN  [m EXCEPT ![Len(m)] = Entry(key, data, t)]
    ELSE Append(c, Entry(key, data, t))

\* a faulty _cache_put: a full cache loses its oldest entry on every put
cache_put_always_evict(c, key, data, t) ==
    LET kept == IF Len(c) >= CACHE_MAX_SIZE THEN Tail(c) ELSE c
    IN  Append(SelectSeq(kept, LAMBDA e : e.key # key), Entry(key, data, t))

\* a faulty _cache_put: an entry that is present is kept as it is
cache_put_keep_first(c, key, data, t) ==
    IF InCache(c, key) THEN c
    ELSE LET kept == IF Len(c) >= CACHE_MAX_SIZE THEN Tail(c) ELSE c
         IN  Append(kept, Entry(key, data, t))

\* NominatimClient._cache_put at time t: the cache left
cache_put(c, key, data, t) ==
    IF InCache(c, key)
    THEN LET m == MoveToEnd(c, key)
         IN  [m EXCEPT ![Len(m)] = Entry(key, data, t)]
    ELSE LET kept == IF Len(c) >= CACHE_MAX_SIZE THEN Tail(c) ELSE c
         IN  Append(kept, Entry(key, data, t))

(***************************************************************************)
(* State                                                                   *)
(***************************************************************************)
VARIABLES
    now,                \* the clock: time.monotonic() and time.time()
    cache,              \* self._cache
    last_request_time,  \* self._last_request_time
    lock_holder,        \* the task inside `async with self._rate_lock`, or 0
    waiters,            \* the tasks queued on self._rate_lock, first come first
    pc,                 \* where each task is in _request
    req,                \* the call (index into Calls) each task is making
    attempt,            \* the loop variable `attempt` of each task
    wake,               \* when each sleeping task's asyncio.sleep ends
    calls,              \* history: client.get calls issued for the task's request
    answers,            \* history: the responses to the task's request, counted
    last_end,           \* history: the request the last step ended, if it ended one
    budget,             \* environment: the requests and the 429/503 answers still to come
    issued,             \* history: departure time of the task's last client.get
    departures,         \* history: the last two values written to _last_request_time
    evictions,          \* history: number of entries _request's puts have evicted
    self_client,        \* self._client: the transport (by its number), or 0 for None
    made,               \* the number of transports created so far
    closed,             \* the transports aclose() has been called on
    client,             \* the local `client` of each task in _request, or 0
    on_closed,          \* history: whether the task's last client.get went to a closed transport
    closes,             \* environment: the calls of close() still to come
    last_op,            \* history: the last direct cache operation and the cache before it
    recency,            \* history: the keys in order of their last touch
    ka, kb, kequiv,     \* two requests whose keys are compared
    task,               \* the Geocoder operation that is running, or NoTask
    pending,            \* the client calls that operation is waiting for
    client_log,         \* history: the client calls the last operation started
    client_returns,     \* history: how many results each of them that ended returned
    outcome,            \* history: the last operation called and its result
    last_return,        \* history: the client call the last step ended
    fetches,            \* history: how each client call of the operation was answered
    previous,           \* history: the not-found the operation before ended with, if any
    ops,                \* environment: the operations of the caller still to come
    applied             \* history: the function applied last, its argument and value

keyVars == <<ka, kb, kequiv>>
cacheHist == <<last_op, recency>>
clientVars ==
    <<last_request_time, lock_holder, waiters, pc, req, attempt, wake, calls,
      answers, last_end, budget, issued, departures, evictions,
      self_client, made, closed, client, on_closed, closes>>
\* the transport and the handles to it
transportVars == <<self_client, made, closed, client>>
geoVars == <<task, pending, client_log, client_returns, outcome, last_return>>
stackVars == <<fetches, previous, ops>>
vars == <<now, cache, clientVars, cacheHist, keyVars, geoVars, stackVars, applied>>

(***************************************************************************)
(* Cache keys of requests that differ in case and whitespace               *)
(***************************************************************************)
\* longest query text the edits build
MaxStrLen == 3

\* the query texts the comparison starts from
BaseQueries ==
    { <<"A", "b">>, <<"a", " ", "\t", "b">>, <<" ", "b", "A">> }

\* the text of the q parameter of a request, and the request with it replaced
QueryIndex(r) == CHOOSE i \in 1..Len(r.params) : r.params[i].name = "q"
QueryOf(r) == r.params[QueryIndex(r)].v
WithQuery(r, text) == [r EXCEPT !.params[QueryIndex(r)].v = text]

\* whether position i of the text holds a whitespace character
SpaceAt(text, i) == i \in 1..Len(text) /\ IsSpace(text[i])

\* text with the character at position i replaced, removed, or c put before it
SetAt(text, i, c) == [text EXCEPT ![i] = c]
RemoveAt(text, i) == SubSeq(text, 1, i - 1) \o SubSeq(text, i + 1, Len(text))
InsertAt(text, i, c) == SubSeq(text, 1, i - 1) \o <<c>> \o SubSeq(text, i, Len(text))

\* a step of the key comparison leaves the client and the cache alone
KeyFrame == UNCHANGED <<now, cache, clientVars, cacheHist, geoVars, stackVars, applied>>

KeyInit ==
    /\ ka \in { [endpoint |-> "search", params |-> SearchParams(q, <<"5">>)] :
                    q \in BaseQueries }
    /\ kb = ka
    /\ kequiv = TRUE

\* the case of one letter of kb's query is changed
KeyToggleCase(i) ==
    /\ i \in 1..Len(QueryOf(kb))
    /\ QueryOf(kb)[i] \in {"A", "a"}
    /\ kb' = WithQuery(kb, SetAt(QueryOf(kb), i,
                                 IF QueryOf(kb)[i] = "A" THEN "a" ELSE "A"))
    /\ UNCHANGED <<ka, kequiv>>
    /\ KeyFrame

\* a whitespace character is added to kb's query at an end or next to whitespace
KeyInsertSpace(i, w) ==
    LET q == QueryOf(kb)
    IN  /\ Len(q) < MaxStrLen
        /\ i \in 1..(Len(q) + 1)
        /\ \/ i = 1
           \/ i = Len(q) + 1
           \/ SpaceAt(q, i - 1)
           \/ SpaceAt(q, i)
        /\ kb' = WithQuery(kb, InsertAt(q, i, w))
        /\ UNCHANGED <<ka, kequiv>>
        /\ KeyFrame

\* a whitespace character at an end or next to whitespace is removed from kb's query
KeyDeleteSpace(i) ==
    LET q == QueryOf(kb)
    IN  /\ i \in 1..Len(q)
        /\ IsSpace(q[i])
        /\ \/ i = 1
           \/ i = Len(q)
           \/ SpaceAt(q, i - 1)
           \/ SpaceAt(q, i + 1)
        /\ kb' = WithQuery(kb, RemoveAt(q, i))
        /\ UNCHANGED <<ka, kequiv>>
        /\ KeyFrame

\* a whitespace character of kb's query becomes the other whitespace character
KeySwapSpace(i) ==
    LET q == QueryOf(kb)
    IN  /\ i \in 1..Len(q)
        /\ IsSpace(q[i])
        /\ kb' = WithQuery(kb, SetAt(q, i, IF q[i] = " " THEN "\t" ELSE " "))
        /\ UNCHANGED <<ka, kequiv>>
        /\ KeyFrame

\* kb's parameters are given in the opposite insertion order
KeyReorder ==
    /\ kb' = [kb EXCEPT !.params =
                [i \in 1..Len(kb.params) |-> kb.params[Len(kb.params) + 1 - i]]]
    /\ UNCHANGED <<ka, kequiv>>
    /\ KeyFrame

\* the content of kb's query changes: a character is set, added or removed
KeyEditContent(i, c) ==
    LET q == QueryOf(kb)
    IN  /\ \/ i \in 1..Len(q) /\ kb' = WithQuery(kb, SetAt(q, i, c))
           \/ i \in 1..(Len(q) + 1) /\ Len(q) < MaxStrLen
                /\ kb' = WithQuery(kb, InsertAt(q, i, c))
           \/ i \in 1..Len(q) /\ kb' = WithQuery(kb, RemoveAt(q, i))
        /\ kequiv' = FALSE
        /\ UNCHANGED ka
        /\ KeyFrame

\* kb goes to another endpoint, or its limit is given as a str or as a number
KeyEditOther ==
    /\ \/ \E e \in {"search", "lookup"} : kb' = [kb EXCEPT !.endpoint = e]
       \/ \E j \in 1..Len(kb.params), str \in BOOLEAN :
            /\ kb.params[j].name = "limit"
            /\ kb' = [kb EXCEPT !.params[j].isStr = str]
    /\ kequiv' = FALSE
    /\ UNCHANGED ka
    /\ KeyFrame

NextKey ==
    \/ \E i \in 1..(MaxStrLen + 1) : KeyToggleCase(i)
    \/ \E i \in 1..(MaxStrLen + 1), w \in {" ", "\t"} : KeyInsertSpace(i, w)
    \/ \E i \in 1..(MaxStrLen + 1) : KeyDeleteSpace(i)
    \/ \E i \in 1..(MaxStrLen + 1) : KeySwapSpace(i)
    \/ KeyReorder
    \/ \E i \in 1..(MaxStrLen + 1), c \in Chars : KeyEditContent(i, c)
    \/ KeyEditOther

(***************************************************************************)
(* Direct use of the cache: _cache_get and _cache_put called one at a time *)
(***************************************************************************)
\* a key sequence without one key
Without(keys, key) == SelectSeq(keys, LAMBDA k : k # key)

\* a touch makes the key the most recently touched one
Touch(keys, key) == Append(Without(keys, key), key)

\* the entries of cache c whose key cache d no longer holds
Dropped(c, d) == SelectSeq(c, LAMBDA e : ~InCache(d, e.key))

\* no direct cache operation has run in this second
NoOp ==
    [op |-> "none", key |-> KeyOfCall(1), value |-> None, dropped |-> <<>>,
     before |-> <<>>]

CacheHistInit ==
    /\ last_op = NoOp
    /\ recency = <<>>

\* a step of the cache alone leaves the client and the key comparison alone
CacheFrame == UNCHANGED <<clientVars, keyVars, geoVars, stackVars, applied>>

\* self._cache_put(key, data)
CachePutOp(key, data) ==
    /\ cache' = cache_put(cache, key, data, now)
    /\ last_op' = [op |-> "put", key |-> key, value |-> data,
                   dropped |-> Dropped(cache, cache'), before |-> cache]
    /\ recency' = Touch(recency, key)
    /\ UNCHANGED now
    /\ CacheFrame

\* self._cache_get(key)
CacheGetOp(key) ==
    LET got == cache_get(cache, key, now)
    IN  /\ cache' = got.cache
        /\ last_op' = [op |-> "get", key |-> key, value |-> got.value,
                       dropped |-> Dropped(cache, cache'), before |-> cache]
        /\ recency' = IF got.value # None THEN Touch(recency, key) ELSE recency
        /\ UNCHANGED now
        /\ CacheFrame

\* a second passes
CacheTick ==
    /\ now < MaxCacheTime
    /\ now' = now + 1
    /\ last_op' = NoOp
    /\ UNCHANGED <<cache, recency>>
    /\ CacheFrame

NextCache ==
    \/ \E key \in CallKeys, data \in Bodies : CachePutOp(key, data)
    \/ \E key \in CallKeys : CacheGetOp(key)
    \/ CacheTick

(***************************************************************************)
(* The client: concurrent tasks running _request                           *)
(***************************************************************************)
\* 2**n
RECURSIVE Pow2(_)
Pow2(n) == IF n = 0 THEN 1 ELSE 2 * Pow2(n - 1)

\* a faulty delay: it grows by the base delay, it does not double
BackoffDelayLinear(k) == RETRY_BASE_DELAY * (k + 1)

\* delay = RETRY_BASE_DELAY * (2**attempt)  (nominatim.py line 141)
BackoffDelay(k) == RETRY_BASE_DELAY * Pow2(k)

\* a faulty retry condition: every status that is not 200 is retried
ShouldRetryAnyError(status, k) == status # 200 /\ k < MAX_RETRIES

\* a faulty retry condition: the last attempt is retried too
ShouldRetryOnceMore(status, k) ==
    status \in RETRYABLE_STATUS_CODES /\ k <= MAX_RETRIES

\* the condition under which a response is retried (lines 137-140)
ShouldRetry(status, k) ==
    status \in RETRYABLE_STATUS_CODES /\ k < MAX_RETRIES

\* a faulty ending: a 429 is reported like any other status that is not 200
ClassifyGeneric(status, body) ==
    IF status # 200
    THEN [kind |-> "api_error", status |-> status, data |-> None]
    ELSE [kind |-> "ok", status |-> status, data |-> body]

\* how _request ends on the response it left the loop with (lines 153-162)
Classify(status, body) ==
    IF status = 429
    THEN [kind |-> "rate_limited", status |-> status, data |-> None]
    ELSE IF status # 200
         THEN [kind |-> "api_error", status |-> status, data |-> None]
         ELSE [kind |-> "ok", status |-> status, data |-> body]

\* a faulty ending: the cache is written before the status is looked at
cache_after_any(c, key, end, t) == cache_put(c, key, end.data, t)

\* a faulty ending: the body of a 200 response is returned and not stored
cache_after_never(c, key, end, t) == c

\* the cache _request leaves at its end: the raise of lines 153-158 comes
\* before self._cache_put(cache_key, data) of line 161
cache_after(c, key, end, t) ==
    IF end.kind = "ok" THEN cache_put(c, key, end.data, t) ELSE c

\* a faulty _rate_limit: it sleeps for the time elapsed, not for the remainder
RateLimitSleepElapsed(elapsed) == elapsed

\* the remainder asyncio.sleep is asked for in _rate_limit (line 74)
RateLimitSleep(elapsed) == RATE_LIMIT_SECONDS - elapsed

\* no response yet: n responses, of which final had a status that is not a
\* retryable one
NoAnswers == [n |-> 0, final |-> 0]

\* the responses counted so far, after one more
Answered(a, status) ==
    [n |-> a.n + 1,
     final |-> a.final + (IF status \in RETRYABLE_STATUS_CODES THEN 0 ELSE 1)]

\* the last two departure times, after one more
Departed(d, t) == IF d = <<>> THEN <<t>> ELSE <<d[Len(d)], t>>

\* a step of the client leaves the direct cache history and the key comparison alone
ClientFrame == UNCHANGED <<cacheHist, keyVars, geoVars, stackVars, applied>>

\* a faulty _rate_limit: the lock is still held when the call is issued
DepartHolding(p, c) ==
    /\ last_request_time' = now
    /\ departures' = Departed(departures, now)
    /\ lock_holder' = p
    /\ pc' = [pc EXCEPT ![p] = "http"]
    /\ calls' = [calls EXCEPT ![p] = c + 1]
    /\ issued' = [issued EXCEPT ![p] = now]
    /\ wake' = [wake EXCEPT ![p] = 0]
    /\ on_closed' = [on_closed EXCEPT ![p] = client[p] \in closed]

\* the end of _rate_limit and the client.get that follows it without suspension:
\* the departure time is recorded, the lock released, the call issued (c calls before)
Depart(p, c) ==
    /\ last_request_time' = now
    /\ departures' = Departed(departures, now)
    /\ lock_holder' = 0
    /\ pc' = [pc EXCEPT ![p] = "http"]
    /\ calls' = [calls EXCEPT ![p] = c + 1]
    /\ issued' = [issued EXCEPT ![p] = now]
    /\ wake' = [wake EXCEPT ![p] = 0]
    /\ on_closed' = [on_closed EXCEPT ![p] = client[p] \in closed]

\* the body of `async with self._rate_lock` for task p, which has the lock,
\* up to its first suspension; ws is the queue left behind it
RateLimitBody(p, ws, c) ==
    LET elapsed == now - last_request_time
    IN  /\ waiters' = ws
        /\ IF elapsed < RATE_LIMIT_SECONDS
           THEN /\ lock_holder' = p
                /\ wake' = [wake EXCEPT ![p] = now + RateLimitSleep(elapsed)]
                /\ pc' = [pc EXCEPT ![p] = "rl_sleep"]
                /\ calls' = [calls EXCEPT ![p] = c]
                /\ UNCHANGED <<last_request_time, departures, issued, on_closed>>
           ELSE Depart(p, c)

\* a faulty _rate_limit: its body runs without the lock
rate_limit_unlocked(p, c) == RateLimitBody(p, waiters, c)

\* `await self._rate_limit()` called by task p: asyncio.Lock.acquire takes a
\* free lock nobody waits for at once, and otherwise queues the task
rate_limit(p, c) ==
    IF lock_holder = 0 /\ waiters = <<>>
    THEN RateLimitBody(p, waiters, c)
    ELSE /\ waiters' = Append(waiters, p)
         /\ pc' = [pc EXCEPT ![p] = "lock_wait"]
         /\ calls' = [calls EXCEPT ![p] = c]
         /\ wake' = [wake EXCEPT ![p] = 0]
         /\ UNCHANGED <<lock_holder, last_request_time, departures, issued, on_closed>>

\* the last step ended no request
NoEnd ==
    [p |-> 0, n |-> 1, kind |-> "none", status |-> 0, data |-> None,
     hit |-> FALSE, calls |-> 0, answers |-> NoAnswers, size |-> 0]

\* a new client, no task in it
ClientStart ==
    /\ last_request_time = 0
    /\ lock_holder = 0
    /\ waiters = <<>>
    /\ pc = [p \in Procs |-> "idle"]
    /\ req = [p \in Procs |-> 1]
    /\ attempt = [p \in Procs |-> 0]
    /\ wake = [p \in Procs |-> 0]
    /\ calls = [p \in Procs |-> 0]
    /\ answers = [p \in Procs |-> NoAnswers]
    /\ last_end = NoEnd
    /\ issued = [p \in Procs |-> 0]
    /\ departures = <<>>
    /\ evictions = 0
    /\ self_client = 0
    /\ made = 0
    /\ closed = {}
    /\ client = [p \in Procs |-> 0]
    /\ on_closed = [p \in Procs |-> FALSE]

\* a client nobody closes
ClientInit == ClientStart /\ budget \in Scenarios /\ closes = 0

\* `client = await self._get_client()`: the transport is created if there is
\* none; the coroutine has no suspension point
get_client(p) ==
    /\ IF self_client = 0
       THEN self_client' = made + 1 /\ made' = made + 1
       ELSE UNCHANGED <<self_client, made>>
    /\ client' = [client EXCEPT ![p] = self_client']
    /\ UNCHANGED closed

\* a faulty _request: a request answered from the cache counts as a departure
StartRequestStamped(p, n) ==
    LET got == cache_get(cache, KeyOfCall(n), now)
    IN  /\ pc[p] = "idle"
        /\ budget.reqs > 0
        /\ budget' = [budget EXCEPT !.reqs = @ - 1]
        /\ cache' = got.cache
        /\ IF got.value # None
           THEN /\ last_end' =
                     [p |-> p, n |-> n, kind |-> "ok", status |-> 0,
                      data |-> got.value, hit |-> TRUE, calls |-> 0,
                      answers |-> NoAnswers, size |-> Len(cache)]
                /\ last_request_time' = now
                /\ UNCHANGED <<lock_holder, waiters, pc, req,
                               wake, calls, issued, departures, on_closed>>
                /\ UNCHANGED transportVars
           ELSE /\ req' = [req EXCEPT ![p] = n]
                /\ get_client(p)
                /\ rate_limit(p, 0)
                /\ last_end' = NoEnd
        /\ UNCHANGED <<now, attempt, answers, evictions, closes>>
        /\ ClientFrame

\* task p calls search, reverse or lookup (call n): _request up to its first
\* suspension, or to its return on a cache hit
StartRequest(p, n) ==
    LET got == cache_get(cache, KeyOfCall(n), now)
    IN  /\ pc[p] = "idle"
        /\ budget.reqs > 0
        /\ budget' = [budget EXCEPT !.reqs = @ - 1]
        /\ cache' = got.cache
        /\ IF got.value # None
           THEN /\ last_end' =
                     [p |-> p, n |-> n, kind |-> "ok", status |-> 0,
                      data |-> got.value, hit |-> TRUE, calls |-> 0,
                      answers |-> NoAnswers, size |-> Len(cache)]
                /\ UNCHANGED <<last_request_time, lock_holder, waiters, pc, req,
                               wake, calls, issued, departures, on_closed>>
                /\ UNCHANGED transportVars
           ELSE /\ req' = [req EXCEPT ![p] = n]
                /\ get_client(p)
                /\ rate_limit(p, 0)
                /\ last_end' = NoEnd
        /\ UNCHANGED <<now, attempt, answers, evictions, closes>>
        /\ ClientFrame

\* the lock is free and task p is first in its queue: p enters the critical section
LockGranted(p) ==
    /\ pc[p] = "lock_wait"
    /\ lock_holder = 0
    /\ waiters # <<>>
    /\ Head(waiters) = p
    /\ RateLimitBody(p, Tail(waiters), calls[p])
    /\ last_end' = NoEnd
    /\ UNCHANGED <<now, cache, req, attempt, answers, budget, evictions, closes>>
    /\ UNCHANGED transportVars
    /\ ClientFrame

\* the sleep of _rate_limit ends for task p, which leaves the critical section
RateSleepEnd(p) ==
    /\ pc[p] = "rl_sleep"
    /\ now >= wake[p]
    /\ Depart(p, calls[p])
    /\ last_end' = NoEnd
    /\ UNCHANGED <<now, cache, waiters, req, attempt, answers, budget, evictions, closes>>
    /\ UNCHANGED transportVars
    /\ ClientFrame

\* task p's _request returns or raises: its locals are gone
Return(p) ==
    /\ pc' = [pc EXCEPT ![p] = "idle"]
    /\ req' = [req EXCEPT ![p] = 1]
    /\ attempt' = [attempt EXCEPT ![p] = 0]
    /\ calls' = [calls EXCEPT ![p] = 0]
    /\ answers' = [answers EXCEPT ![p] = NoAnswers]
    /\ issued' = [issued EXCEPT ![p] = 0]
    /\ client' = [client EXCEPT ![p] = 0]
    /\ on_closed' = [on_closed EXCEPT ![p] = FALSE]
    /\ UNCHANGED <<self_client, made, closed>>

\* the service answers task p's call with a status (and a body, for a 200)
HttpResponse(p, status, body) ==
    /\ pc[p] = "http"
    /\ ~on_closed[p]
    /\ IF status \in RETRYABLE_STATUS_CODES
       THEN budget.faults > 0 /\ budget' = [budget EXCEPT !.faults = @ - 1]
       ELSE UNCHANGED budget
    /\ IF ShouldRetry(status, attempt[p])
       THEN /\ wake' = [wake EXCEPT ![p] = now + BackoffDelay(attempt[p])]
            /\ pc' = [pc EXCEPT ![p] = "backoff"]
            /\ answers' = [answers EXCEPT ![p] = Answered(@, status)]
            /\ issued' = [issued EXCEPT ![p] = 0]
            /\ last_end' = NoEnd
            /\ UNCHANGED <<cache, evictions, attempt, req, calls, on_closed>>
            /\ UNCHANGED transportVars
       ELSE LET end == Classify(status, body)
            IN  /\ last_end' =
                     [p |-> p, n |-> req[p], kind |-> end.kind,
                      status |-> end.status, data |-> end.data, hit |-> FALSE,
                      calls |-> calls[p],
                      answers |-> Answered(answers[p], status),
                      size |-> Len(cache)]
                /\ cache' = cache_after(cache, KeyOfCall(req[p]), end, now)
                /\ evictions' = evictions + Len(Dropped(cache, cache'))
                /\ Return(p)
                /\ UNCHANGED wake
    /\ UNCHANGED <<now, last_request_time, lock_holder, waiters, departures, closes>>
    /\ ClientFrame

\* a faulty handling of a transport failure: it is retried like a 503
HttpFailRetried(p) ==
    /\ pc[p] = "http"
    /\ ~on_closed[p]
    /\ IF attempt[p] < MAX_RETRIES
       THEN /\ wake' = [wake EXCEPT ![p] = now + BackoffDelay(attempt[p])]
            /\ pc' = [pc EXCEPT ![p] = "backoff"]
            /\ issued' = [issued EXCEPT ![p] = 0]
            /\ last_end' = NoEnd
            /\ UNCHANGED <<attempt, req, calls, answers, on_closed>>
            /\ UNCHANGED transportVars
       ELSE /\ last_end' =
                 [p |-> p, n |-> req[p], kind |-> "network_error", status |-> 0,
                  data |-> None, hit |-> FALSE, calls |-> calls[p],
                  answers |-> answers[p], size |-> Len(cache)]
            /\ Return(p)
            /\ UNCHANGED wake
    /\ UNCHANGED <<now, cache, last_request_time, lock_holder, waiters,
                   budget, departures, evictions, closes>>
    /\ ClientFrame

\* task p's call fails in the transport (httpx.ConnectError, httpx.TimeoutException)
HttpFail(p) ==
    /\ pc[p] = "http"
    /\ ~on_closed[p]
    /\ last_end' =
         [p |-> p, n |-> req[p], kind |-> "network_error", status |-> 0,
          data |-> None, hit |-> FALSE, calls |-> calls[p],
          answers |-> answers[p], size |-> Len(cache)]
    /\ Return(p)
    /\ UNCHANGED <<now, cache, last_request_time, lock_holder, waiters,
                   wake, budget, departures, evictions, closes>>
    /\ ClientFrame

\* task p's client.get was called on a transport that is closed: httpx
\* raises RuntimeError, which _request does not catch
HttpOnClosed(p) ==
    /\ pc[p] = "http"
    /\ on_closed[p]
    /\ last_end' =
         [p |-> p, n |-> req[p], kind |-> "client_closed", status |-> 0,
          data |-> None, hit |-> FALSE, calls |-> calls[p],
          answers |-> answers[p], size |-> Len(cache)]
    /\ Return(p)
    /\ UNCHANGED <<now, cache, last_request_time, lock_holder, waiters,
                   wake, budget, departures, evictions, closes>>
    /\ ClientFrame

\* what a step of close() leaves alone
CloseFrame ==
    /\ UNCHANGED <<now, cache, last_request_time, lock_holder, waiters, req, attempt,
                   wake, calls, answers, budget, issued, departures, evictions,
                   made, client, on_closed>>
    /\ ClientFrame

\* task p calls close(): with no transport it returns at once; otherwise it
\* calls aclose() on the transport, which is closed from then on, and
\* awaits it
CloseStart(p) ==
    /\ pc[p] = "idle"
    /\ closes > 0
    /\ closes' = closes - 1
    /\ IF self_client = 0
       THEN UNCHANGED <<pc, closed>>
       ELSE /\ closed' = closed \cup {self_client}
            /\ pc' = [pc EXCEPT ![p] = "aclose"]
    /\ last_end' = NoEnd
    /\ UNCHANGED self_client
    /\ CloseFrame

\* aclose() is done for task p: `self._client = None`
CloseEnd(p) ==
    /\ pc[p] = "aclose"
    /\ self_client' = 0
    /\ pc' = [pc EXCEPT ![p] = "idle"]
    /\ last_end' = NoEnd
    /\ UNCHANGED <<closed, closes>>
    /\ CloseFrame

\* the backoff sleep of task p ends: the loop goes to its next attempt
BackoffEnd(p) ==
    /\ pc[p] = "backoff"
    /\ now >= wake[p]
    /\ attempt' = [attempt EXCEPT ![p] = @ + 1]
    /\ rate_limit(p, calls[p])
    /\ last_end' = NoEnd
    /\ UNCHANGED <<now, cache, req, answers, budget, evictions, closes>>
    /\ UNCHANGED transportVars
    /\ ClientFrame

\* whether the passing of a second can still change what a later request
\* reads or does
TimeMatters ==
    \/ now - last_request_time < RATE_LIMIT_SECONDS
    \/ \E i \in 1..Len(cache) : now - cache[i].timestamp <= CACHE_TTL_SECONDS

\* a second passes, while a request is running or, up to MaxTime, while it
\* matters: no sleep overruns by more than MaxLate, no call stays unanswered
\* for longer than the timeout, no task the lock is free for is kept waiting,
\* no aclose() takes a second
Tick ==
    /\ \/ \E p \in Procs : pc[p] # "idle"
       \/ now < MaxTime /\ TimeMatters
    /\ \A p \in Procs :
          /\ pc[p] \in {"rl_sleep", "backoff"} => now < wake[p] + MaxLate
          /\ pc[p] = "http" => now < issued[p] + TIMEOUT_SECONDS
          /\ pc[p] = "lock_wait" => lock_holder # 0
          /\ pc[p] # "aclose"
    /\ now' = now + 1
    /\ last_end' = NoEnd
    /\ UNCHANGED <<cache, last_request_time, lock_holder, waiters, pc, req, attempt,
                   wake, calls, answers, budget, issued, departures, evictions,
                   on_closed, closes>>
    /\ UNCHANGED transportVars
    /\ ClientFrame

Next ==
    \/ \E p \in Procs, n \in 1..Len(Calls) : StartRequest(p, n)
    \/ \E p \in Procs : LockGranted(p)
    \/ \E p \in Procs : RateSleepEnd(p)
    \/ \E p \in Procs, status \in Statuses :
          \E body \in (IF status = 200 THEN Bodies ELSE {None}) :
              HttpResponse(p, status, body)
    \/ \E p \in Procs : HttpFail(p)
    \/ \E p \in Procs : BackoffEnd(p)
    \/ Tick

\* most calls of close()
MaxCloses == 2
\* what the environment does in a run with calls of close()
CloseScenarios ==
    { [reqs |-> MaxReqs, faults |-> 0],
      [reqs |-> MaxReqs - 1, faults |-> 1] }
\* a client that is also closed by its tasks
ClientInitClose == ClientStart /\ budget \in CloseScenarios /\ closes = MaxCloses

\* the calls the tasks make in a run with calls of close(): the two searches
\* of one key and the reverse
CloseCalls == {1, 2, 3}

NextClose ==
    \/ \E p \in Procs, n \in CloseCalls : StartRequest(p, n)
    \/ \E p \in Procs : LockGranted(p)
    \/ \E p \in Procs : RateSleepEnd(p)
    \/ \E p \in Procs, status \in {200, 429} :
          \E body \in (IF status = 200 THEN {"list"} ELSE {None}) :
              HttpResponse(p, status, body)
    \/ \E p \in Procs : HttpFail(p)
    \/ \E p \in Procs : HttpOnClosed(p)
    \/ \E p \in Procs : BackoffEnd(p)
    \/ \E p \in Procs : CloseStart(p)
    \/ \E p \in Procs : CloseEnd(p)
    \/ Tick

(***************************************************************************)
(* The values the Geocoder and the client's public methods pass around     *)
(***************************************************************************)
\* Boxes are written in units of 0.00001 degree, so that the buffers of the
\* rank table, service boxes of four decimals and their paddings by tenths
\* of their width are whole numbers.
UnitsPerDegree == 100000

\* one entry of an "address" object
AddressEntry(key, value) == [key |-> key, value |-> value]

\* the places the service knows: a display name and a position in whole
\* degrees.  They lie on the prime meridian one degree apart; one of them has
\* an empty display name.  A key the service leaves out of a result is written
\* as the empty sequence: P1 and P3 have no "boundingbox", P3 has no
\* "place_rank", no "type" and no "address" either.  An "address" is the
\* sequence of its entries in the order of the response.
Places ==
    { [display_name |-> "P1", lat |-> 0, lon |-> 0,
       boundingbox |-> <<>>, place_rank |-> <<16>>, type |-> <<"city">>,
       address |-> <<AddressEntry("city", "C1"), AddressEntry("postcode", "Z1"),
                     AddressEntry("state", "S1"), AddressEntry("country", "N1")>>],
      [display_name |-> "P2", lat |-> 1, lon |-> 0,
       boundingbox |-> <<50000, 150000, -60000, 40000>>, place_rank |-> <<18>>,
       type |-> <<"river">>,
       address |-> <<AddressEntry("road", "R2"), AddressEntry("country", "N1")>>],
      [display_name |-> "P3", lat |-> 2, lon |-> 0,
       boundingbox |-> <<>>, place_rank |-> <<>>, type |-> <<>>, address |-> <<>>],
      [display_name |-> "", lat |-> 0, lon |-> 0,
       boundingbox |-> <<>>, place_rank |-> <<30>>, type |-> <<"city">>,
       address |-> <<>>] }
PlaceNamed(name) == CHOOSE pl \in Places : pl.display_name = name

\* a JSON object of a response and a JSON array of such objects
\* (the text of a number and the number are not told apart)
JsonDict(pl) ==
    [kind |-> "dict", display_name |-> pl.display_name, lat |-> pl.lat, lon |-> pl.lon,
     boundingbox |-> pl.boundingbox, place_rank |-> pl.place_rank,
     type |-> pl.type, address |-> pl.address]
JsonList(items) == [kind |-> "list", items |-> items]
NoValue == [kind |-> "None"]

\* isinstance(result, list) and isinstance(result, dict)
IsList(v) == v.kind = "list"
IsDict(v) == v.kind = "dict"

\* the result of a call: a returned value or a raised exception with the
\* message template it was built from and the values formatted into it
Returned(v) == [kind |-> "return", value |-> v, exc |-> "", msg |-> "", about |-> <<>>]
Raised(exc, msg, about) ==
    [kind |-> "raise", value |-> NoValue, exc |-> exc, msg |-> msg, about |-> about]
NoResult == [kind |-> "none", value |-> NoValue, exc |-> "", msg |-> "", about |-> <<>>]

\* the bodies a 200 response carries: an object, an empty array, arrays of
\* one and of two objects
ResponseBodies ==
    { JsonDict(PlaceNamed("P1")),
      JsonList(<<>>),
      JsonList(<<JsonDict(PlaceNamed("P1"))>>),
      JsonList(<<JsonDict(PlaceNamed("P2"))>>),
      JsonList(<<JsonDict(PlaceNamed("P3"))>>),
      JsonList(<<JsonDict(PlaceNamed("P1")), JsonDict(PlaceNamed("P2"))>>),
      JsonList(<<JsonDict(PlaceNamed("P2")), JsonDict(PlaceNamed("P1"))>>),
      JsonList(<<JsonDict(PlaceNamed("")), JsonDict(PlaceNamed("P1"))>>) }

\* the ways _request ends: it returns the body of a 200 response (from the
\* network or from the cache) or raises one of its three errors
RequestResults ==
    { Returned(b) : b \in ResponseBodies }
        \cup { Raised("RuntimeError", "RATE_LIMITED", <<>>),
               Raised("RuntimeError", "API_ERROR", <<500>>),
               Raised("ConnectionError", "NETWORK_ERROR", <<>>) }

\* the last line of search and of lookup, applied to what _request returned
search_return(result) == IF IsList(result) THEN result ELSE JsonList(<<result>>)

\* the last line of reverse: result[0] of an empty list raises IndexError
reverse_return(result) ==
    IF IsDict(result) THEN Returned(result)
    ELSE IF result.items = <<>>
         THEN Raised("IndexError", "list index out of range", <<>>)
         ELSE Returned(result.items[1])

\* what the caller of search, reverse or lookup gets when _request ended
\* with r: an exception of _request passes through the method
ClientReturn(endpoint, r) ==
    IF r.kind = "raise" THEN r
    ELSE IF endpoint = "reverse" THEN reverse_return(r.value)
    ELSE Returned(search_return(r.value))

(***************************************************************************)
(* Geocoder: validation                                                     *)
(***************************************************************************)
\* str.strip(): the text without its leading and trailing whitespace
RECURSIVE LStrip(_)
LStrip(s) == IF s # <<>> /\ IsSpace(Head(s)) THEN LStrip(Tail(s)) ELSE s
RECURSIVE RStrip(_)
RStrip(s) ==
    IF s # <<>> /\ IsSpace(s[Len(s)]) THEN RStrip(SubSeq(s, 1, Len(s) - 1)) ELSE s
Strip(s) == RStrip(LStrip(s))

\* Geocoder._validate_query: the exception it raises, or NoResult
validate_query(query) ==
    IF query = <<>> \/ Strip(query) = <<>>
    THEN Raised("ValueError", "EMPTY_QUERY", <<>>)
    ELSE NoResult

\* Geocoder._validate_coordinates: the exception it raises, or NoResult
validate_coordinates_open(lat, lon) ==
    IF ~(-90 < lat /\ lat < 90) THEN Raised("ValueError", "INVALID_LAT", <<lat>>)
    ELSE IF ~(-180 < lon /\ lon < 180) THEN Raised("ValueError", "INVALID_LON", <<lon>>)
    ELSE NoResult
validate_coordinates(lat, lon) ==
    IF ~(-90 <= lat /\ lat <= 90) THEN Raised("ValueError", "INVALID_LAT", <<lat>>)
    ELSE IF ~(-180 <= lon /\ lon <= 180) THEN Raised("ValueError", "INVALID_LON", <<lon>>)
    ELSE NoResult

(***************************************************************************)
(* Geometry                                                                *)
(***************************************************************************)
\* the length of one degree of a great circle of radius r = 6371000.0,
\* r * radians(1) = 111194.93 m, in hundredths of a metre
ArcPerDegree == 11119493

Abs(x) == IF x >= 0 THEN x ELSE 0 - x

\* haversine_distance, in hundredths of a metre, of points on one meridian
\* (d_lambda a multiple of 360: a = sin(d_phi / 2) ** 2, so r * c is r * |d_phi|)
\* and of points on opposite meridians (d_lambda = 180: the great circle runs
\* over the nearer pole and r * c is r * (pi - |phi1 + phi2|))
haversine_distance(lat1, lon1, lat2, lon2) ==
    IF (lon1 - lon2) % 360 = 0
    THEN Abs(lat2 - lat1) * ArcPerDegree
    ELSE (180 - Abs(lat1 + lat2)) * ArcPerDegree

\* round(x, 1) on a distance in hundredths of a metre: the nearest tenth of
\* a metre, an exact half going to the even tenth
round1(x) ==
    LET low == x - (x % 10) IN
    IF x % 10 < 5 THEN low
    ELSE IF x % 10 > 5 THEN low + 10
    ELSE IF (low \div 10) % 2 = 0 THEN low ELSE low + 10

\* convert_bbox: [min_lat, max_lat, min_lon, max_lon] to
\* [west, south, east, north]
convert_bbox_unswapped(nominatim_bbox) == nominatim_bbox
convert_bbox(nominatim_bbox) ==
    LET min_lat == nominatim_bbox[1]
        max_lat == nominatim_bbox[2]
        min_lon == nominatim_bbox[3]
        max_lon == nominatim_bbox[4]
    IN  <<min_lon, min_lat, max_lon, max_lat>>

\* PLACE_RANK_BUFFERS, in the order of the dict, and DEFAULT_BBOX_BUFFER
PLACE_RANK_BUFFERS ==
    << [low |-> 0, high |-> 4, buffer |-> 1000000],
       [low |-> 5, high |-> 8, buffer |-> 200000],
       [low |-> 9, high |-> 12, buffer |-> 50000],
       [low |-> 13, high |-> 16, buffer |-> 10000],
       [low |-> 17, high |-> 20, buffer |-> 1000],
       [low |-> 21, high |-> 26, buffer |-> 500],
       [low |-> 27, high |-> 30, buffer |-> 100] >>
DEFAULT_BBOX_BUFFER == 1000

\* bbox_buffer_for_rank; place_rank is <<>> for None and <<r>> for the rank r
RECURSIVE BufferFrom(_, _)
BufferFrom(k, rank) ==
    IF k > Len(PLACE_RANK_BUFFERS) THEN DEFAULT_BBOX_BUFFER
    ELSE IF PLACE_RANK_BUFFERS[k].low <= rank /\ rank <= PLACE_RANK_BUFFERS[k].high
         THEN PLACE_RANK_BUFFERS[k].buffer
         ELSE BufferFrom(k + 1, rank)
\* a lookup that takes a rank outside the table for the nearest one in it
bbox_buffer_for_rank_clamped(place_rank) ==
    IF place_rank = <<>> THEN DEFAULT_BBOX_BUFFER
    ELSE IF place_rank[1] < 0 THEN BufferFrom(1, 0)
    ELSE IF place_rank[1] > 30 THEN BufferFrom(1, 30)
    ELSE BufferFrom(1, place_rank[1])
bbox_buffer_for_rank(place_rank) ==
    IF place_rank = <<>> THEN DEFAULT_BBOX_BUFFER ELSE BufferFrom(1, place_rank[1])

\* the smallest and the largest of a non-empty set of numbers
Min(S) == CHOOSE x \in S : \A y \in S : x <= y
Max(S) == CHOOSE x \in S : \A y \in S : x >= y

\* bbox_union
bbox_union(bboxes) ==
    IF bboxes = <<>> THEN <<0, 0, 0, 0>>
    ELSE LET side(j) == { bboxes[k][j] : k \in 1..Len(bboxes) } IN
         <<Min(side(1)), Min(side(2)), Max(side(3)), Max(side(4))>>

\* compute_area_km2, as the three numbers its product is formed from: the
\* width and the height of the box and twice its middle latitude, whose
\* cosine scales the width.  The product and its rounding to two decimals
\* are functions of these three and are not computed.
compute_area_km2(bbox) ==
    [width |-> Abs(bbox[3] - bbox[1]), height |-> Abs(bbox[4] - bbox[2]),
     mid_lat2 |-> bbox[2] + bbox[4]]

(***************************************************************************)
(* Geocoder: the operations                                                *)
(***************************************************************************)
\* the size cap of a batch
BATCH_MAX_QUERIES == 3

\* [ZoomLevel.BUILDING, ZoomLevel.STREET, ZoomLevel.SUBURB, ZoomLevel.CITY]
ProbeZooms == <<18, 16, 14, 10>>
\* ADMIN_LEVEL_KEYS: pairs of an address key and its level name
ADMIN_LEVEL_KEYS ==
    << <<"country", "country">>, <<"state", "state">>, <<"county", "county">>,
       <<"city", "city">>, <<"town", "town">>, <<"village", "village">>,
       <<"suburb", "suburb">>, <<"neighbourhood", "neighbourhood">> >>

\* a running operation: its name, its arguments and its local variables
\* (the position i in its loop and the list acc it is building); the padding
\* of bbox_from_place is written in tenths
Task(name, query, lat, lon, queries, limit) ==
    [name |-> name, query |-> query, lat |-> lat, lon |-> lon,
     queries |-> queries, limit |-> limit, padding |-> 0, categories |-> {},
     i |-> 1, acc |-> <<>>]
NoTask == [Task("none", <<>>, 0, 0, <<>>, 0) EXCEPT !.i = 0]

\* a call of a client method: self._client.search(query, limit=...),
\* self._client.reverse(lat, lon, zoom=...), client.lookup(...)
SearchCall(query, limit) ==
    [endpoint |-> "search", query |-> query, lat |-> 0, lon |-> 0, zoom |-> 0,
     limit |-> limit, bounded |-> FALSE]
ReverseCall(lat, lon, zoom) ==
    [endpoint |-> "reverse", query |-> <<>>, lat |-> lat, lon |-> lon, zoom |-> zoom,
     limit |-> 0, bounded |-> FALSE]
LookupCall ==
    [endpoint |-> "lookup", query |-> <<>>, lat |-> 0, lon |-> 0, zoom |-> 0,
     limit |-> 0, bounded |-> FALSE]
\* the search of nearby_places, bounded to the viewbox around (lat, lon); its
\* query text is the point, which the call carries in lat and lon
ViewboxCall(lat, lon) ==
    [endpoint |-> "search", query |-> <<>>, lat |-> lat, lon |-> lon, zoom |-> 0,
     limit |-> 5, bounded |-> TRUE]

\* what a piece of an operation does up to its next await of the client or
\* its end: the operation's new state, the client calls it starts, its result
Finish(result) == [task |-> NoTask, calls |-> <<>>, result |-> result]
Await(t, call) == [task |-> t, calls |-> <<call>>, result |-> NoResult]

\* `int(raw["place_rank"]) if raw.get("place_rank") else None`: a key that
\* is absent and the number 0 are both false
RankOf(raw) ==
    IF raw.place_rank # <<>> /\ raw.place_rank[1] # 0 THEN raw.place_rank ELSE <<>>

\* the box of half-width buffer around a point given in whole degrees
BoxAround(lat, lon, buffer) ==
    <<lon * UnitsPerDegree - buffer, lat * UnitsPerDegree - buffer,
      lon * UnitsPerDegree + buffer, lat * UnitsPerDegree + buffer>>

\* Geocoder._parse_search_result and _parse_reverse_result (the optional
\* fields osm_type, osm_id, importance and category are left out)
parse_search_result(raw) ==
    [kind |-> "GeocodeItem", lat |-> raw.lat, lon |-> raw.lon,
     display_name |-> raw.display_name,
     bbox |-> IF raw.boundingbox # <<>> THEN convert_bbox(raw.boundingbox)
              ELSE BoxAround(raw.lat, raw.lon, bbox_buffer_for_rank(RankOf(raw))),
     place_rank |-> RankOf(raw)]
parse_reverse_result(raw, lat, lon) ==
    [kind |-> "ReverseResult", lat |-> raw.lat, lon |-> raw.lon,
     display_name |-> raw.display_name,
     bbox |-> IF raw.boundingbox # <<>> THEN convert_bbox(raw.boundingbox)
              ELSE BoxAround(raw.lat, raw.lon, 100),
     place_rank |-> RankOf(raw)]

\* ---- geocode ----
\* geocode after `raw_results = await self._client.search(...)` ended with ret
geocode_result_reversed(query, ret) ==
    IF ret.kind = "raise" THEN ret
    ELSE IF ret.value.items = <<>> THEN Raised("ValueError", "NO_RESULTS", <<query>>)
    ELSE LET raw == ret.value.items IN
         Returned(JsonList([k \in 1..Len(raw) |->
                               parse_search_result(raw[Len(raw) + 1 - k])]))
geocode_result(query, ret) ==
    IF ret.kind = "raise" THEN ret
    ELSE IF ret.value.items = <<>> THEN Raised("ValueError", "NO_RESULTS", <<query>>)
    ELSE LET raw == ret.value.items IN
         Returned(JsonList([k \in 1..Len(raw) |-> parse_search_result(raw[k])]))

\* geocode up to its await
geocode_begin(t) ==
    LET v == validate_query(t.query) IN
    IF v.kind = "raise" THEN Finish(v) ELSE Await(t, SearchCall(t.query, t.limit))
geocode_resume(t, ret) == Finish(geocode_result(t.query, ret))

\* ---- bbox_from_place ----
\* the box moved inward on each side by padding times its width or height
padded_inward(bbox, padding) ==
    IF padding > 0
    THEN LET width == bbox[3] - bbox[1]
             height == bbox[4] - bbox[2]
         IN  <<bbox[1] + (width * padding) \div 10, bbox[2] + (height * padding) \div 10,
               bbox[3] - (width * padding) \div 10, bbox[4] - (height * padding) \div 10>>
    ELSE bbox
\* `if padding > 0:` the box moved outward on each side by padding times its
\* width or height; padding is written in tenths and the sides of the
\* modelled boxes are multiples of ten units, so the products are exact
padded(bbox, padding) ==
    IF padding > 0
    THEN LET width == bbox[3] - bbox[1]
             height == bbox[4] - bbox[2]
         IN  <<bbox[1] - (width * padding) \div 10, bbox[2] - (height * padding) \div 10,
               bbox[3] + (width * padding) \div 10, bbox[4] + (height * padding) \div 10>>
    ELSE bbox
BboxResult(item, bbox) ==
    [kind |-> "BboxResult", place_name |-> item.display_name, bbox |-> bbox,
     center |-> <<item.lon, item.lat>>, area_km2 |-> compute_area_km2(bbox)]
bbox_from_place_begin(t) ==
    LET v == validate_query(t.query) IN
    IF v.kind = "raise" THEN Finish(v) ELSE Await(t, SearchCall(t.query, 1))
bbox_from_place_resume(t, ret) ==
    IF ret.kind = "raise" THEN Finish(ret)
    ELSE IF ret.value.items = <<>>
         THEN Finish(Raised("ValueError", "NO_RESULTS", <<t.query>>))
         ELSE LET item == parse_search_result(ret.value.items[1]) IN
              Finish(Returned(BboxResult(item, padded(item.bbox, t.padding))))

\* ---- reverse_geocode ----
reverse_geocode_begin(t) ==
    LET v == validate_coordinates(t.lat, t.lon) IN
    IF v.kind = "raise" THEN Finish(v) ELSE Await(t, ReverseCall(t.lat, t.lon, 18))
reverse_geocode_resume(t, ret) ==
    IF ret.kind = "raise" THEN Finish(ret)
    ELSE Finish(Returned(parse_reverse_result(ret.value, t.lat, t.lon)))

\* ---- admin_boundaries ----
admin_boundaries_begin(t) ==
    LET v == validate_coordinates(t.lat, t.lon) IN
    IF v.kind = "raise" THEN Finish(v)
    ELSE Await(t, ReverseCall(t.lat, t.lon, 18))
\* `addr_key in address` and `address[addr_key]`
HasKey(address, addr_key) == \E k \in 1..Len(address) : address[k].key = addr_key
ValueOf(address, addr_key) ==
    address[CHOOSE k \in 1..Len(address) : address[k].key = addr_key].value
\* a loop over the address map instead, adding the items in its order
RECURSIVE boundaries_in_address_order(_, _)
boundaries_in_address_order(address, j) ==
    IF j > Len(address) THEN <<>>
    ELSE LET rest == boundaries_in_address_order(address, j + 1)
             levels == { k \in 1..Len(ADMIN_LEVEL_KEYS) :
                            ADMIN_LEVEL_KEYS[k][1] = address[j].key }
         IN  IF levels = {} THEN rest
             ELSE <<[kind |-> "AdminBoundaryItem",
                     level |-> ADMIN_LEVEL_KEYS[CHOOSE k \in levels : TRUE][2],
                     name |-> address[j].value]>> \o rest
\* the loop over ADMIN_LEVEL_KEYS from its j-th pair on
RECURSIVE boundaries_from(_, _)
boundaries_from(address, j) ==
    IF j > Len(ADMIN_LEVEL_KEYS) THEN <<>>
    ELSE LET addr_key == ADMIN_LEVEL_KEYS[j][1]
             level_name == ADMIN_LEVEL_KEYS[j][2]
             rest == boundaries_from(address, j + 1)
         IN  IF HasKey(address, addr_key)
             THEN <<[kind |-> "AdminBoundaryItem", level |-> level_name,
                     name |-> ValueOf(address, addr_key)]>> \o rest
             ELSE rest
admin_boundaries_resume(t, ret) ==
    IF ret.kind = "raise" THEN Finish(ret)
    ELSE Finish(Returned([kind |-> "AdminBoundaries",
                          display_name |-> ret.value.display_name,
                          boundaries |-> boundaries_from(ret.value.address, 1)]))

\* ---- nearby_places ----
\* one NearbyItem (osm_type and importance, which no modelled body carries,
\* are left out)
NearbyItem(raw, lat, lon) ==
    [kind |-> "NearbyItem", display_name |-> raw.display_name,
     lat |-> raw.lat, lon |-> raw.lon,
     distance_m |-> round1(haversine_distance(lat, lon, raw.lat, raw.lon)),
     place_type |-> raw.type]

\* the names in seen_names: those of the items collected so far
SeenNames(items) == { items[k].display_name : k \in 1..Len(items) }

\* the body of both loops without seen_names: the item of raw is appended
\* unless its name is empty
RECURSIVE CollectAll(_, _, _, _)
CollectAll(items, raws, lat, lon) ==
    IF raws = <<>> THEN items
    ELSE LET raw == Head(raws) IN
         IF raw.display_name = ""
         THEN CollectAll(items, Tail(raws), lat, lon)
         ELSE CollectAll(Append(items, NearbyItem(raw, lat, lon)), Tail(raws), lat, lon)

\* the body of both loops: the item of raw is appended unless its name is
\* empty or seen
RECURSIVE Collect(_, _, _, _)
Collect(items, raws, lat, lon) ==
    IF raws = <<>> THEN items
    ELSE LET raw == Head(raws) IN
         IF raw.display_name = "" \/ raw.display_name \in SeenNames(items)
         THEN Collect(items, Tail(raws), lat, lon)
         ELSE Collect(Append(items, NearbyItem(raw, lat, lon)), Tail(raws), lat, lon)

\* key=lambda x: x.distance_m or float("inf"): whether a's key is above b's
KeyAbove(a, b) ==
    IF a.distance_m = 0 THEN b.distance_m # 0
    ELSE b.distance_m # 0 /\ a.distance_m > b.distance_m

\* list.sort(key=...): stable, ascending by key
RECURSIVE SortedInsert(_, _)
SortedInsert(sorted, x) ==
    IF sorted = <<>> THEN <<x>>
    ELSE LET last == sorted[Len(sorted)] IN
         IF KeyAbove(last, x)
         THEN Append(SortedInsert(SubSeq(sorted, 1, Len(sorted) - 1), x), last)
         ELSE Append(sorted, x)
RECURSIVE SortByDistance(_)
SortByDistance(items) ==
    IF items = <<>> THEN <<>>
    ELSE SortedInsert(SortByDistance(SubSeq(items, 1, Len(items) - 1)),
                      items[Len(items)])

\* if categories: items = [i for i in items if i.place_type in cat_set]
\* (categories is the set of the given types, empty when none or no list is
\* given; an item without a type is in no set)
FilterByCategory(items, categories) ==
    IF categories = {} THEN items
    ELSE LET InSet(i) == i.place_type # <<>> /\ i.place_type[1] \in categories
         IN  SelectSeq(items, InSet)

\* the filter; items.sort(...); return items[:limit]
nearby_places_return(items, limit, categories) ==
    LET sorted == SortByDistance(FilterByCategory(items, categories)) IN
    Returned(JsonList(SubSeq(sorted, 1, IF limit < Len(sorted) THEN limit
                                        ELSE Len(sorted))))

nearby_places_begin(t) ==
    LET v == validate_coordinates(t.lat, t.lon) IN
    IF v.kind = "raise" THEN Finish(v)
    ELSE Await(t, ReverseCall(t.lat, t.lon, ProbeZooms[1]))

\* a probe ended with ret, an exception ending the operation
nearby_places_resume_raising(t, ret) ==
    IF ret.kind = "raise" THEN Finish(ret)
    ELSE LET raws == IF t.i <= Len(ProbeZooms) THEN <<ret.value>> ELSE ret.value.items
             items == Collect(t.acc, raws, t.lat, t.lon)
             next == [t EXCEPT !.i = t.i + 1, !.acc = items]
         IN  IF t.i < Len(ProbeZooms)
             THEN Await(next, ReverseCall(t.lat, t.lon, ProbeZooms[t.i + 1]))
             ELSE IF t.i = Len(ProbeZooms)
             THEN Await(next, ViewboxCall(t.lat, t.lon))
             ELSE Finish(nearby_places_return(items, t.limit, t.categories))

\* a probe ended with ret: an exception is swallowed and the next probe, the
\* viewbox search or the end follows
nearby_places_resume(t, ret) ==
    LET raws == IF ret.kind = "raise" THEN <<>>
                ELSE IF t.i <= Len(ProbeZooms) THEN <<ret.value>>
                ELSE ret.value.items
        items == Collect(t.acc, raws, t.lat, t.lon)
        next == [t EXCEPT !.i = t.i + 1, !.acc = items]
    IN  IF t.i < Len(ProbeZooms)
        THEN Await(next, ReverseCall(t.lat, t.lon, ProbeZooms[t.i + 1]))
        ELSE IF t.i = Len(ProbeZooms)
        THEN Await(next, ViewboxCall(t.lat, t.lon))
        ELSE Finish(nearby_places_return(items, t.limit, t.categories))

\* ---- batch_geocode ----
\* BatchItem(query=query, results=results) and BatchItem(query=query, error=str(e))
BatchItem(query, g) ==
    IF g.kind = "return"
    THEN [kind |-> "BatchItem", query |-> query, results |-> g.value, error |-> NoValue]
    ELSE [kind |-> "BatchItem", query |-> query, results |-> NoValue,
          error |-> [kind |-> "str", msg |-> g.msg, about |-> g.about]]

\* the loop from its i-th query on, up to the next await of the client: a
\* query that fails validation gets its item without any await
RECURSIVE batch_from_eager(_, _, _, _)
batch_from_eager(queries, limit, i, items) ==
    IF i > Len(queries) THEN Finish(Returned(JsonList(items)))
    ELSE LET rest == batch_from_eager(queries, limit, i + 1, items) IN
         IF validate_query(queries[i]).kind = "raise" THEN rest
         ELSE [task |-> [Task("batch_geocode", <<>>, 0, 0, queries, limit)
                            EXCEPT !.i = i, !.acc = items],
               calls |-> <<SearchCall(queries[i], limit)>> \o rest.calls,
               result |-> NoResult]
RECURSIVE batch_from(_, _, _, _)
batch_from(queries, limit, i, items) ==
    IF i > Len(queries) THEN Finish(Returned(JsonList(items)))
    ELSE LET v == validate_query(queries[i]) IN
         IF v.kind = "raise"
         THEN batch_from(queries, limit, i + 1, Append(items, BatchItem(queries[i], v)))
         ELSE Await([Task("batch_geocode", <<>>, 0, 0, queries, limit)
                        EXCEPT !.i = i, !.acc = items],
                    SearchCall(queries[i], limit))

batch_geocode_begin_strict(t) ==
    IF t.queries = <<>> THEN Finish(Raised("ValueError", "BATCH_EMPTY", <<>>))
    ELSE IF Len(t.queries) >= BATCH_MAX_QUERIES
    THEN Finish(Raised("ValueError", "BATCH_TOO_LARGE",
                       <<Len(t.queries), BATCH_MAX_QUERIES>>))
    ELSE batch_from(t.queries, t.limit, 1, <<>>)
batch_geocode_begin(t) ==
    IF t.queries = <<>> THEN Finish(Raised("ValueError", "BATCH_EMPTY", <<>>))
    ELSE IF Len(t.queries) > BATCH_MAX_QUERIES
    THEN Finish(Raised("ValueError", "BATCH_TOO_LARGE",
                       <<Len(t.queries), BATCH_MAX_QUERIES>>))
    ELSE batch_from(t.queries, t.limit, 1, <<>>)

\* the search of the i-th query ended with ret: its geocode returns or
\* raises, the item is appended and the loop goes on
batch_geocode_resume_abort(t, ret) ==
    LET g == geocode_result(t.queries[t.i], ret) IN
    IF g.kind = "raise" THEN Finish(g)
    ELSE batch_from(t.queries, t.limit, t.i + 1,
                    Append(t.acc, BatchItem(t.queries[t.i], g)))
batch_geocode_resume(t, ret) ==
    LET g == geocode_result(t.queries[t.i], ret) IN
    batch_from(t.queries, t.limit, t.i + 1,
               Append(t.acc, BatchItem(t.queries[t.i], g)))

\* ---- route_waypoints ----
RouteWaypointItem(item) ==
    [kind |-> "RouteWaypointItem", name |-> item.display_name,
     lat |-> item.lat, lon |-> item.lon, bbox |-> item.bbox]

\* the distance of resolved[i] and resolved[i + 1], unrounded
LegDistance(resolved, i) ==
    haversine_distance(resolved[i].lat, resolved[i].lon,
                       resolved[i + 1].lat, resolved[i + 1].lon)

\* the legs and the total of the resolved waypoints
route_legs_star(resolved) ==
    [i \in 1..(Len(resolved) - 1) |->
        [kind |-> "RouteLegItem", from_name |-> resolved[1].name,
         to_name |-> resolved[i + 1].name,
         distance_m |-> round1(LegDistance(resolved, i))]]
route_legs(resolved) ==
    [i \in 1..(Len(resolved) - 1) |->
        [kind |-> "RouteLegItem", from_name |-> resolved[i].name,
         to_name |-> resolved[i + 1].name,
         distance_m |-> round1(LegDistance(resolved, i))]]
RECURSIVE total_distance(_, _)
total_distance(resolved, n) ==
    IF n = 0 THEN 0 ELSE total_distance(resolved, n - 1) + LegDistance(resolved, n)

\* the bbox of the route
route_bbox_first(resolved) == resolved[1].bbox
route_bbox(resolved) == bbox_union([k \in 1..Len(resolved) |-> resolved[k].bbox])

\* RouteResult(...)
RouteResult(resolved) ==
    [kind |-> "RouteResult", waypoints |-> resolved, legs |-> route_legs(resolved),
     total_distance_m |-> round1(total_distance(resolved, Len(resolved) - 1)),
     bbox |-> route_bbox(resolved)]

\* the first loop from its i-th waypoint on, up to the next await or the end
route_from(waypoints, i, resolved) ==
    IF i > Len(waypoints) THEN Finish(Returned(RouteResult(resolved)))
    ELSE LET v == validate_query(waypoints[i]) IN
         IF v.kind = "raise" THEN Finish(v)
         ELSE Await([Task("route_waypoints", <<>>, 0, 0, waypoints, 1)
                        EXCEPT !.i = i, !.acc = resolved],
                    SearchCall(waypoints[i], 1))

route_waypoints_begin(t) ==
    IF Len(t.queries) < 2 THEN Finish(Raised("ValueError", "WAYPOINTS_MIN", <<>>))
    ELSE route_from(t.queries, 1, <<>>)

\* the search of the i-th waypoint ended with ret: an exception of its
\* geocode leaves route_waypoints
route_waypoints_resume_skip(t, ret) ==
    LET g == geocode_result(t.queries[t.i], ret) IN
    IF g.kind = "raise" THEN route_from(t.queries, t.i + 1, t.acc)
    ELSE route_from(t.queries, t.i + 1,
                    Append(t.acc, RouteWaypointItem(g.value.items[1])))
route_waypoints_resume(t, ret) ==
    LET g == geocode_result(t.queries[t.i], ret) IN
    IF g.kind = "raise" THEN Finish(g)
    ELSE route_from(t.queries, t.i + 1,
                    Append(t.acc, RouteWaypointItem(g.value.items[1])))

\* ---- the client's methods called directly ----
client_method_begin(t) ==
    Await(t, IF t.name = "search" THEN SearchCall(t.query, t.limit)
             ELSE IF t.name = "reverse" THEN ReverseCall(t.lat, t.lon, 18)
             ELSE LookupCall)
client_method_resume(t, ret) == Finish(ret)

\* ---- an operation from its call to its first await, and from the end of
\* the client call it awaits to its next await or its end ----
Begin(t) ==
    CASE t.name = "geocode" -> geocode_begin(t)
      [] t.name = "bbox_from_place" -> bbox_from_place_begin(t)
      [] t.name = "reverse_geocode" -> reverse_geocode_begin(t)
      [] t.name = "admin_boundaries" -> admin_boundaries_begin(t)
      [] t.name = "nearby_places" -> nearby_places_begin(t)
      [] t.name = "batch_geocode" -> batch_geocode_begin(t)
      [] t.name = "route_waypoints" -> route_waypoints_begin(t)
      [] OTHER -> client_method_begin(t)
Resume(t, ret) ==
    CASE t.name = "geocode" -> geocode_resume(t, ret)
      [] t.name = "bbox_from_place" -> bbox_from_place_resume(t, ret)
      [] t.name = "reverse_geocode" -> reverse_geocode_resume(t, ret)
      [] t.name = "admin_boundaries" -> admin_boundaries_resume(t, ret)
      [] t.name = "nearby_places" -> nearby_places_resume(t, ret)
      [] t.name = "batch_geocode" -> batch_geocode_resume(t, ret)
      [] t.name = "route_waypoints" -> route_waypoints_resume(t, ret)
      [] OTHER -> client_method_resume(t, ret)

(***************************************************************************)
(* One caller of the Geocoder: the state machine                           *)
(***************************************************************************)
\* the query texts and the coordinates the caller passes
GeoQueries == { <<>>, <<" ", "\t">>, <<"A">>, <<" ", "b">> }
ListQueries == { <<" ">>, <<"A">>, <<"b">> }
Latitudes == {-91, -90, 0, 90, 91}
Longitudes == {-181, -180, 0, 180, 181}
NearbyLimits == {1, 10}
\* paddings of bbox_from_place, in tenths
Paddings == {-5, 0, 1, 10}
\* the categories argument of nearby_places: none, or the list ["city"]
Categories == { {}, {"city"} }

\* the lists of at most n queries
RECURSIVE ListsUpTo(_)
ListsUpTo(n) ==
    IF n = 0 THEN {<<>>}
    ELSE LET shorter == ListsUpTo(n - 1) IN
         shorter \cup { Append(l, q) : l \in { s \in shorter : Len(s) = n - 1 },
                                       q \in ListQueries }
QueryLists == ListsUpTo(BATCH_MAX_QUERIES + 1)

\* the calls the caller makes
GeoCalls ==
    { Task("geocode", q, 0, 0, <<>>, 5) : q \in GeoQueries }
    \cup { [Task("bbox_from_place", q, 0, 0, <<>>, 0) EXCEPT !.padding = p] :
              q \in GeoQueries, p \in Paddings }
    \cup { Task(name, <<>>, lat, lon, <<>>, 0) :
              name \in {"reverse_geocode", "admin_boundaries"},
              lat \in Latitudes, lon \in Longitudes }
    \cup { [Task("nearby_places", <<>>, lat, lon, <<>>, limit) EXCEPT !.categories = c] :
              lat \in Latitudes, lon \in Longitudes, limit \in NearbyLimits,
              c \in Categories }
    \cup { Task(name, <<>>, 0, 0, l, 1) : name \in {"batch_geocode", "route_waypoints"},
                                          l \in QueryLists }
    \cup { Task("search", <<"A">>, 0, 0, <<>>, 5),
           Task("reverse", <<>>, 0, 0, <<>>, 0),
           Task("lookup", <<>>, 0, 0, <<>>, 0) }

\* the number of results a client method returned, -1 if it raised
ResultCount(ret) ==
    IF ret.kind = "raise" THEN -1
    ELSE IF IsDict(ret.value) THEN 1
    ELSE Len(ret.value.items)

\* no client method has returned in this step
NoReturn == [call |-> LookupCall, request |-> NoResult, ret |-> NoResult]

\* no operation has been called
NoOutcome == [op |-> NoTask, result |-> NoResult]

GeoInit ==
    /\ task = NoTask
    /\ pending = <<>>
    /\ client_log = <<>>
    /\ client_returns = <<>>
    /\ outcome = NoOutcome
    /\ last_return = NoReturn
    /\ fetches = <<>>
    /\ previous = <<>>
    /\ ops = 0

\* a step of the Geocoder's caller leaves the modelled client, whose methods
\* it replaces by their results, alone
GeoFrame == UNCHANGED <<now, cache, clientVars, cacheHist, keyVars, stackVars, applied>>

\* the caller, who holds no result, calls an operation, which runs to its
\* first await or its end
Call(t) ==
    /\ task = NoTask /\ pending = <<>> /\ outcome = NoOutcome
    /\ LET s == Begin(t) IN
          /\ task' = s.task
          /\ pending' = s.calls
          /\ client_log' = s.calls
          /\ client_returns' = <<>>
          /\ outcome' = [op |-> t, result |-> s.result]
    /\ last_return' = NoReturn
    /\ GeoFrame

\* the _request of the oldest outstanding client call ends with r; the method
\* returns or raises and the operation runs to its next await or its end
ClientAnswers(r) ==
    /\ pending # <<>>
    /\ LET c == Head(pending)
           ret == ClientReturn(c.endpoint, r)
           s == Resume(task, ret)
       IN  /\ task' = s.task
           /\ pending' = Tail(pending) \o s.calls
           /\ client_log' = client_log \o s.calls
           /\ client_returns' = Append(client_returns, ResultCount(ret))
           /\ outcome' = [outcome EXCEPT !.result = s.result]
           /\ last_return' = [call |-> c, request |-> r, ret |-> ret]
    /\ GeoFrame

\* the caller takes the result of the operation that ended
TakeResult ==
    /\ task = NoTask /\ pending = <<>> /\ outcome # NoOutcome
    /\ outcome' = NoOutcome
    /\ client_log' = <<>>
    /\ client_returns' = <<>>
    /\ last_return' = NoReturn
    /\ UNCHANGED <<task, pending>>
    /\ GeoFrame

NextGeo ==
    \/ \E t \in GeoCalls : Call(t)
    \/ TakeResult
    \/ \E r \in RequestResults : ClientAnswers(r)

(***************************************************************************)
(* One caller of the Geocoder over the client and its cache                *)
(***************************************************************************)
\* str(n) of a natural number, as json.dumps writes it
Digit(d) == <<"0", "1", "2", "3", "4", "5", "6", "7", "8", "9">>[d + 1]
RECURSIVE StrOfNat(_)
StrOfNat(n) == IF n < 10 THEN <<Digit(n)>> ELSE Append(StrOfNat(n \div 10), Digit(n % 10))

\* the key _request derives for the search a Geocoder operation makes
KeyOfSearch(c) ==
    cache_key("search", WithDefaults(SearchParams(c.query, StrOfNat(c.limit))))

\* what the service does with a request: the status and the body of the
\* response _request leaves its loop with, and the number of attempts made
StackBodies == { JsonList(<<>>), JsonList(<<JsonDict(PlaceNamed("P1"))>>) }
StackAnswers ==
    { [status |-> 200, body |-> b, attempts |-> 1] : b \in StackBodies }
    \cup { [status |-> 200, body |-> JsonList(<<>>), attempts |-> 2],
           [status |-> 500, body |-> NoValue, attempts |-> 1] }

\* what _request returns or raises at its end (lines 153-162)
EndResult(end) ==
    IF end.kind = "ok" THEN Returned(end.data)
    ELSE IF end.kind = "rate_limited" THEN Raised("RuntimeError", "RATE_LIMITED", <<>>)
    ELSE Raised("RuntimeError", "API_ERROR", <<end.status>>)

\* a faulty test of the cached value: its truth, which an empty list fails
is_cached_truthy(cached) == cached.kind # "None" /\ ~(IsList(cached) /\ cached.items = <<>>)

\* `cached is not None`
is_cached(cached) == cached.kind # "None"

\* how a client call was answered: from the cache (status 0, no attempt) or
\* by the service, or not yet (status -1); when _request looked the key up,
\* when it returned, and when the entry that answered was stored
Fetch(key, status, attempts, at, done, stored) ==
    [key |-> key, status |-> status, attempts |-> attempts, at |-> at,
     done |-> done, stored |-> stored]

\* the operation runs on at time t, without suspension, while the client
\* answers its calls from the cache: every call's _request up to
\* `return cached` or to its first await
RECURSIVE run_to_await(_, _)
run_to_await(s, t) ==
    IF s.pending = <<>> THEN s
    ELSE LET c == Head(s.pending)
             key == KeyOfSearch(c)
             got == cache_get(s.cache, key, t)
             cached == IF InCache(got.cache, key) THEN got.value ELSE NoValue
         IN  IF is_cached(cached)
             THEN LET ret == ClientReturn(c.endpoint, Returned(cached))
                      n == Resume(s.task, ret)
                  IN  run_to_await(
                          [task |-> n.task,
                           pending |-> Tail(s.pending) \o n.calls,
                           cache |-> got.cache,
                           log |-> s.log \o n.calls,
                           returns |-> Append(s.returns, ResultCount(ret)),
                           fetches |-> Append(s.fetches,
                               Fetch(key, 0, 0, t, t,
                                     s.cache[IndexOf(s.cache, key)].timestamp)),
                           result |-> n.result,
                           last |-> [call |-> c, request |-> Returned(cached), ret |-> ret]],
                          t)
             ELSE [s EXCEPT !.cache = got.cache,
                            !.fetches = Append(s.fetches, Fetch(key, -1, 0, t, t, t))]

\* the state the run leaves
Ran(s) ==
    /\ task' = s.task
    /\ pending' = s.pending
    /\ cache' = s.cache
    /\ client_log' = s.log
    /\ client_returns' = s.returns
    /\ fetches' = s.fetches
    /\ last_return' = s.last

\* a step of the caller leaves the concurrent tasks, the direct cache
\* operations and the key comparison alone
StackFrame == UNCHANGED <<clientVars, cacheHist, keyVars, applied>>

\* the caller calls an operation, which runs to its first await of the
\* network or to its end
StackCall(t) ==
    /\ ops > 0
    /\ task = NoTask /\ pending = <<>> /\ outcome = NoOutcome
    /\ ops' = ops - 1
    /\ LET b == Begin(t)
           s == run_to_await([task |-> b.task, pending |-> b.calls, cache |-> cache,
                              log |-> b.calls, returns |-> <<>>, fetches |-> <<>>,
                              result |-> b.result, last |-> NoReturn], now)
       IN  Ran(s) /\ outcome' = [op |-> t, result |-> s.result]
    /\ UNCHANGED <<now, previous>>
    /\ StackFrame

\* the service answers the call the operation awaits: _request stores a 200
\* body and returns it, or raises; the operation runs on
StackResponse(answer) ==
    /\ pending # <<>>
    /\ LET c == Head(pending)
           key == KeyOfSearch(c)
           end == Classify(answer.status, answer.body)
           ret == ClientReturn(c.endpoint, EndResult(end))
           n == Resume(task, ret)
           asked == fetches[Len(fetches)].at
           s == run_to_await(
                    [task |-> n.task,
                     pending |-> Tail(pending) \o n.calls,
                     cache |-> cache_after(cache, key, end, now),
                     log |-> client_log \o n.calls,
                     returns |-> Append(client_returns, ResultCount(ret)),
                     fetches |-> [fetches EXCEPT ![Len(fetches)] =
                                     Fetch(key, answer.status, answer.attempts,
                                           asked, now, now)],
                     result |-> n.result,
                     last |-> [call |-> c, request |-> EndResult(end), ret |-> ret]],
                    now)
       IN  Ran(s) /\ outcome' = [outcome EXCEPT !.result = s.result]
    /\ UNCHANGED <<now, previous, ops>>
    /\ StackFrame

\* the not-found a geocode ended with: its query, the key it asked for and
\* the time the answer it got was stored
NotFound(o, f) ==
    IF o.op.name = "geocode" /\ o.result.kind = "raise" /\ o.result.msg = "NO_RESULTS"
    THEN <<[query |-> o.op.query, key |-> f[1].key, stored |-> f[1].stored]>>
    ELSE <<>>

\* the caller takes the result of the operation that ended
StackTake ==
    /\ task = NoTask /\ pending = <<>> /\ outcome # NoOutcome
    /\ previous' = NotFound(outcome, fetches)
    /\ outcome' = NoOutcome
    /\ client_log' = <<>>
    /\ client_returns' = <<>>
    /\ fetches' = <<>>
    /\ last_return' = NoReturn
    /\ UNCHANGED <<now, cache, task, pending, ops>>
    /\ StackFrame

\* latest time of the caller's runs
MaxStackTime == 3

\* a second passes, while the operation awaits the network or between two
\* operations
StackTick ==
    /\ now < MaxStackTime
    /\ pending # <<>> \/ outcome = NoOutcome
    /\ now' = now + 1
    /\ UNCHANGED <<cache, geoVars, stackVars>>
    /\ StackFrame

\* the sequences of at most n elements of S
RECURSIVE SeqsUpTo(_, _)
SeqsUpTo(S, n) ==
    IF n = 0 THEN {<<>>}
    ELSE LET shorter == SeqsUpTo(S, n - 1) IN
         shorter \cup { Append(l, x) : l \in { s \in shorter : Len(s) = n - 1 }, x \in S }

\* the queries of the caller: two that differ in case and whitespace only,
\* another place, and blanks
StackQueries == { <<"A">>, <<" ", "a">>, <<"b">>, <<" ">> }
StackLists == SeqsUpTo(StackQueries, BATCH_MAX_QUERIES)
StackCalls ==
    { Task("geocode", q, 0, 0, <<>>, 1) : q \in StackQueries }
    \cup { Task("batch_geocode", <<>>, 0, 0, l, 1) : l \in StackLists }

\* most operations of the caller in one run
MaxOps == 2

NextStack ==
    \/ \E t \in StackCalls : StackCall(t)
    \/ \E answer \in StackAnswers : StackResponse(answer)
    \/ StackTake
    \/ StackTick

(***************************************************************************)
(* The geometry helpers and the Geocoder's result builders, applied to     *)
(* enumerated values                                                       *)
(***************************************************************************)
\* boxes as the service reports them, [min_lat, max_lat, min_lon, max_lon]:
\* the box of the sample response, a box around P2, the whole world and a
\* box that is a single point
ServiceBoxes ==
    { <<3991380, 4009400, -10530140, -10517310>>,
      <<50000, 150000, -60000, 40000>>,
      <<-9000000, 9000000, -18000000, 18000000>>,
      <<100000, 100000, 0, 0>> }

\* boxes [west, south, east, north] handed to bbox_union: overlapping,
\* nested and disjoint ones
UnionBoxes ==
    { <<-10500000, 3900000, -10400000, 4000000>>,
      <<-10600000, 3800000, -10300000, 4100000>>,
      <<0, 0, 100000, 100000>>,
      <<1000000, 1000000, 1100000, 1100000>> }

\* the place ranks of a raw result: none, the ranks of the table and ranks
\* below and above it
MaxRank == 33
PlaceRanks == {<<>>} \cup { <<r>> : r \in -2..MaxRank }

\* raw results: a point, with or without a box and a rank
RawResults ==
    { JsonDict([display_name |-> "P", lat |-> lat, lon |-> lon,
                boundingbox |-> box, place_rank |-> rank,
                type |-> <<>>, address |-> <<>>]) :
        lat \in {-90, 0, 40}, lon \in {-180, 0, 105},
        box \in {<<>>, <<3991380, 4009400, -10530140, -10517310>>},
        rank \in PlaceRanks }

\* resolved waypoints of a route: parsed from the modelled places
Waypoints == { RouteWaypointItem(parse_search_result(JsonDict(pl))) : pl \in Places }

\* raw results around the point (0, 0): two places of the same name, one of
\* them at the point itself, a third place and one without a display name
NearbyRaw(name, lat, type) ==
    JsonDict([display_name |-> name, lat |-> lat, lon |-> 0, boundingbox |-> <<>>,
              place_rank |-> <<>>, type |-> type, address |-> <<>>])
\* what the four reverse lookups of nearby_places return or raise
ProbeReturns ==
    { Raised("ConnectionError", "NETWORK_ERROR", <<>>),
      Returned(NearbyRaw("A", 0, <<"city">>)),
      Returned(NearbyRaw("A", 1, <<"river">>)),
      Returned(NearbyRaw("B", 2, <<"city">>)),
      Returned(NearbyRaw("", 1, <<"city">>)) }
\* what its viewbox search returns or raises
ViewboxReturns ==
    { Raised("RuntimeError", "RATE_LIMITED", <<>>),
      Returned(JsonList(<<>>)),
      Returned(JsonList(<<NearbyRaw("A", 1, <<"river">>), NearbyRaw("B", 2, <<"city">>)>>)),
      Returned(JsonList(<<NearbyRaw("", 1, <<"city">>), NearbyRaw("A", 0, <<"city">>),
                          NearbyRaw("C", 1, <<>>)>>)) }
\* the five of them in the order of the calls
NearbyReturns ==
    { <<r1, r2, r3, r4, s>> : r1 \in ProbeReturns, r2 \in ProbeReturns,
                              r3 \in ProbeReturns, r4 \in ProbeReturns,
                              s \in ViewboxReturns }

\* an operation that has come to s runs on, its client calls ending with rets
\* one after the other
RECURSIVE RunWith(_, _)
RunWith(s, rets) ==
    IF s.task = NoTask \/ rets = <<>> THEN s
    ELSE RunWith(Resume(s.task, Head(rets)), Tail(rets))

\* "address" objects of up to three entries: keys of ADMIN_LEVEL_KEYS and a
\* key outside it, in any order, no key twice
AddressKeys == {"country", "city", "suburb", "neighbourhood", "road"}
AddressMaps ==
    { a \in SeqsUpTo({ AddressEntry(key, value) : key \in AddressKeys, value \in {"X", "Y"} }, 3) :
         \A j, k \in 1..Len(a) : j # k => a[j].key # a[k].key }

\* ---- the distance_matrix tool (tools/batch/api.py) ----
\* f"Point {i + 1}" for the i-th point, counted from 1 here
AutoName(i) == <<"Point 1", "Point 2", "Point 3", "Point 4", "Point 5">>[i]

\* the parsed (name, lat, lon) of the i-th raw point, or no tuple when the
\* point is neither a list of two numbers or more nor an object with lat
\* and lon
ParsePoint(p, i) ==
    IF p.kind = "list" /\ Len(p.items) >= 2
    THEN <<[name |-> AutoName(i), lat |-> p.items[1], lon |-> p.items[2]]>>
    ELSE IF p.kind = "dict"
         THEN <<[name |-> IF p.name = <<>> THEN AutoName(i) ELSE p.name[1],
                 lat |-> p.lat, lon |-> p.lon]>>
         ELSE <<>>

\* the matrix with every row measured from the first point
matrix_from_first(parsed) ==
    [i \in 1..Len(parsed) |->
        [j \in 1..Len(parsed) |->
            IF i = j THEN 0
            ELSE round1(haversine_distance(parsed[1].lat, parsed[1].lon,
                                           parsed[j].lat, parsed[j].lon))]]
\* the two loops over range(n)
matrix_of(parsed) ==
    [i \in 1..Len(parsed) |->
        [j \in 1..Len(parsed) |->
            IF i = j THEN 0
            ELSE round1(haversine_distance(parsed[i].lat, parsed[i].lon,
                                           parsed[j].lat, parsed[j].lon))]]

\* the tool from raw_points = json.loads(points) on: what it returns and the
\* calls of the geocoder it makes on the way, of which there is none; every
\* exception is turned into an ErrorResponse
distance_matrix(raw_points) ==
    LET ErrorResponse(msg) == [kind |-> "ErrorResponse", error |-> msg]
        bad == { i \in 1..Len(raw_points) : ParsePoint(raw_points[i], i) = <<>> }
        parsed == [i \in 1..Len(raw_points) |-> ParsePoint(raw_points[i], i)[1]]
    IN  [calls |-> <<>>,
         result |->
            IF Len(raw_points) < 2 THEN ErrorResponse("POINTS_MIN")
            ELSE IF bad # {} THEN ErrorResponse("INVALID_JSON")
            ELSE [kind |-> "DistanceMatrixResponse",
                  points |-> parsed,
                  distances |-> matrix_of(parsed),
                  count |-> Len(parsed)]]

\* raw points: pairs and objects on the meridians 0 and 180, and a list of
\* one number
RawPoints ==
    { [kind |-> "list", items |-> <<lat, lon>>] : lat \in {-90, 0, 45}, lon \in {0, 180} }
    \cup { [kind |-> "dict", name |-> <<"Boulder">>, lat |-> 40, lon |-> 0],
           [kind |-> "dict", name |-> <<>>, lat |-> 45, lon |-> 180],
           [kind |-> "list", items |-> <<40>>] }
\* most points of a matrix
MaxPoints == 3

\* no function has been applied
NoApplied == [fn |-> "none", arg |-> <<>>, val |-> <<>>]

FnInit == applied = NoApplied

\* an application of a function leaves the client and the Geocoder's caller
\* alone
FnFrame == UNCHANGED <<now, cache, clientVars, cacheHist, keyVars, geoVars, stackVars>>

ApplyBboxUnion(bboxes) ==
    /\ applied = NoApplied
    /\ applied' = [fn |-> "bbox_union", arg |-> bboxes, val |-> bbox_union(bboxes)]
    /\ FnFrame

ApplyBufferForRank(place_rank) ==
    /\ applied = NoApplied
    /\ applied' = [fn |-> "bbox_buffer_for_rank", arg |-> place_rank,
                   val |-> bbox_buffer_for_rank(place_rank)]
    /\ FnFrame

ApplyConvertBbox(nominatim_bbox) ==
    /\ applied = NoApplied
    /\ applied' = [fn |-> "convert_bbox", arg |-> nominatim_bbox,
                   val |-> convert_bbox(nominatim_bbox)]
    /\ FnFrame

\* geocode after its search returned the one result raw
ApplyGeocode(raw) ==
    /\ applied = NoApplied
    /\ applied' = [fn |-> "geocode", arg |-> raw,
                   val |-> geocode_result(<<"A">>, Returned(JsonList(<<raw>>)))]
    /\ FnFrame

\* reverse_geocode after its reverse lookup returned raw
ApplyReverseGeocode(raw) ==
    /\ applied = NoApplied
    /\ applied' = [fn |-> "reverse_geocode", arg |-> raw,
                   val |-> reverse_geocode_resume(
                               Task("reverse_geocode", <<>>, raw.lat, raw.lon, <<>>, 0),
                               Returned(raw)).result]
    /\ FnFrame

\* bbox_from_place with the given padding after its search returned raw
ApplyBboxFromPlace(raw, padding) ==
    /\ applied = NoApplied
    /\ applied' = [fn |-> "bbox_from_place", arg |-> [raw |-> raw, padding |-> padding],
                   val |-> bbox_from_place_resume(
                               [Task("bbox_from_place", <<"A">>, 0, 0, <<>>, 0)
                                   EXCEPT !.padding = padding],
                               Returned(JsonList(<<raw>>))).result]
    /\ FnFrame

\* route_waypoints after its waypoints resolved
ApplyRouteResult(resolved) ==
    /\ applied = NoApplied
    /\ Len(resolved) >= 2
    /\ applied' = [fn |-> "route_waypoints", arg |-> resolved,
                   val |-> RouteResult(resolved)]
    /\ FnFrame

\* nearby_places at the point (0, 0), its five client calls ending with rets
ApplyNearbyPlaces(limit, categories, rets) ==
    /\ applied = NoApplied
    /\ LET t == [Task("nearby_places", <<>>, 0, 0, <<>>, limit)
                    EXCEPT !.categories = categories]
       IN  applied' = [fn |-> "nearby_places", arg |-> [op |-> t, rets |-> rets],
                       val |-> RunWith(Begin(t), rets).result]
    /\ FnFrame

\* admin_boundaries at the point (0, 0), its reverse lookup returning a result
\* with the given address
ApplyAdminBoundaries(address) ==
    /\ applied = NoApplied
    /\ LET t == Task("admin_boundaries", <<>>, 0, 0, <<>>, 0)
           raw == [JsonDict(PlaceNamed("P1")) EXCEPT !.address = address]
       IN  applied' = [fn |-> "admin_boundaries", arg |-> address,
                       val |-> RunWith(Begin(t), <<Returned(raw)>>).result]
    /\ FnFrame

\* distance_matrix on a list of raw points
ApplyDistanceMatrix(raw_points) ==
    /\ applied = NoApplied
    /\ applied' = [fn |-> "distance_matrix", arg |-> raw_points,
                   val |-> distance_matrix(raw_points)]
    /\ FnFrame

\* the value is taken
Forget ==
    /\ applied.fn # "none"
    /\ applied' = NoApplied
    /\ FnFrame

NextFn ==
    \/ \E bboxes \in SeqsUpTo(UnionBoxes, 3) : ApplyBboxUnion(bboxes)
    \/ \E place_rank \in PlaceRanks : ApplyBufferForRank(place_rank)
    \/ \E nominatim_bbox \in ServiceBoxes : ApplyConvertBbox(nominatim_bbox)
    \/ \E raw \in RawResults : ApplyGeocode(raw)
    \/ \E raw \in RawResults : ApplyReverseGeocode(raw)
    \/ \E raw \in RawResults, padding \in Paddings : ApplyBboxFromPlace(raw, padding)
    \/ \E resolved \in SeqsUpTo(Waypoints, 3) : ApplyRouteResult(resolved)
    \/ \E address \in AddressMaps : ApplyAdminBoundaries(address)
    \/ \E raw_points \in SeqsUpTo(RawPoints, MaxPoints) : ApplyDistanceMatrix(raw_points)
    \/ \E limit \in NearbyLimits, categories \in Categories, rets \in NearbyReturns :
          ApplyNearbyPlaces(limit, categories, rets)
    \/ Forget

(***************************************************************************)
(* Specifications                                                          *)
(***************************************************************************)
\* the key comparison at rest
KeyIdle ==
    /\ ka = [endpoint |-> "search", params |-> SearchParams(<<"A", "b">>, <<"5">>)]
    /\ kb = ka
    /\ kequiv = TRUE

\* the client at rest: no request is ever started
ClientIdle == ClientInit /\ budget.reqs = 1 /\ budget.faults = MAX_RETRIES + 1

Init == now = 0 /\ cache = <<>> /\ ClientInit /\ CacheHistInit /\ KeyIdle /\ GeoInit /\ FnInit
InitCache == now = 0 /\ cache = <<>> /\ ClientIdle /\ CacheHistInit /\ KeyIdle /\ GeoInit /\ FnInit
InitKey == now = 0 /\ cache = <<>> /\ ClientIdle /\ CacheHistInit /\ KeyInit /\ GeoInit /\ FnInit
InitGeo == now = 0 /\ cache = <<>> /\ ClientIdle /\ CacheHistInit /\ KeyIdle /\ GeoInit /\ FnInit
InitClose ==
    now = 0 /\ cache = <<>> /\ ClientInitClose /\ CacheHistInit /\ KeyIdle /\ GeoInit /\ FnInit

\* concurrent tasks making requests through one client
Spec == Init /\ [][Next]_vars
\* the event loop keeps running: the clock goes on, a task the lock is free
\* for gets it, a due timer fires, a call that stays unanswered times out
Fairness ==
    /\ WF_vars(Tick)
    /\ \A p \in Procs :
          /\ WF_vars(LockGranted(p))
          /\ WF_vars(RateSleepEnd(p))
          /\ WF_vars(BackoffEnd(p))
          /\ WF_vars(HttpFail(p))

\* concurrent tasks making requests through one client that keeps running
FairSpec == Spec /\ Fairness
\* concurrent tasks making requests through one client and closing it
SpecClose == InitClose /\ [][NextClose]_vars
\* _cache_get and _cache_put called directly, as the cache's unit tests do
SpecCache == InitCache /\ [][NextCache]_vars
\* _cache_key applied to pairs of requests
SpecKey == InitKey /\ [][NextKey]_vars
\* one caller of the Geocoder and of the client's methods
SpecGeo == InitGeo /\ [][NextGeo]_vars
InitStack ==
    /\ now = 0 /\ cache = <<>> /\ ClientIdle /\ CacheHistInit /\ KeyIdle /\ FnInit
    /\ task = NoTask /\ pending = <<>> /\ client_log = <<>> /\ client_returns = <<>>
    /\ outcome = NoOutcome /\ last_return = NoReturn
    /\ fetches = <<>> /\ previous = <<>> /\ ops = MaxOps
SpecStack == InitStack /\ [][NextStack]_vars
\* the helpers and the result builders applied to enumerated values
SpecFn == InitGeo /\ [][NextFn]_vars

(***************************************************************************)
(* Properties of the rate limiter                                          *)
(***************************************************************************)
\* C1: any two consecutive values recorded in _last_request_time, whichever
\* request or retry records them, differ by at least RATE_LIMIT_SECONDS
C1_DeparturesSpaced ==
    Len(departures) = 2 => departures[2] - departures[1] >= RATE_LIMIT_SECONDS

\* a retry departs exactly one interval after another task's call, which is
\* still unanswered
C1_Witness ==
    /\ Len(departures) = 2
    /\ departures[2] - departures[1] = RATE_LIMIT_SECONDS
    /\ \E p, q \in Procs :
          /\ p # q
          /\ pc[p] = "http" /\ attempt[p] > 0 /\ issued[p] = departures[2]
          /\ pc[q] = "http" /\ issued[q] = departures[1]

\* the tasks whose client.get is unanswered
Outstanding == {p \in Procs : pc[p] = "http"}

\* C2 as stated: never two calls of the client unanswered at the same time
C2_OneOutstanding == Cardinality(Outstanding) <= 1

\* C2: one task at a time is inside the rate limiter's critical section, and
\* calls that are unanswered at the same time departed at least
\* RATE_LIMIT_SECONDS apart
C2_OutstandingSpaced ==
    /\ \A p \in Procs : pc[p] = "rl_sleep" => lock_holder = p
    /\ \A p, q \in Outstanding :
          p # q => \/ issued[p] - issued[q] >= RATE_LIMIT_SECONDS
                   \/ issued[q] - issued[p] >= RATE_LIMIT_SECONDS

\* two calls are unanswered at once, the later departed one interval after
\* the earlier
C2_Witness ==
    \E p, q \in Outstanding : issued[q] - issued[p] = RATE_LIMIT_SECONDS

(***************************************************************************)
(* Properties of the cache                                                 *)
(***************************************************************************)
\* C3: the cache never holds more than CACHE_MAX_SIZE entries, however the
\* concurrent requests interleave
C3_CacheBounded == Len(cache) <= CACHE_MAX_SIZE

\* a request's put has evicted an entry and the cache is full
C3_Witness ==
    /\ evictions > 0
    /\ Len(cache) = CACHE_MAX_SIZE
    /\ last_end.kind = "ok" /\ ~last_end.hit /\ last_end.size = CACHE_MAX_SIZE

\* the key touched longest ago among those the cache holds
LeastRecentlyTouched == SelectSeq(recency, LAMBDA k : InCache(cache, k))[1]

\* C4: a put of a new key into a cache holding CACHE_MAX_SIZE entries evicts
\* exactly one entry, the one touched least recently, where a put and a
\* successful get are touches; the new key is stored
C4_EvictsLeastRecent ==
    [][\A key \in CallKeys, data \in Bodies :
          (CachePutOp(key, data) /\ ~InCache(cache, key)
                                 /\ Len(cache) = CACHE_MAX_SIZE)
          => /\ Len(Dropped(cache, cache')) = 1
             /\ Dropped(cache, cache')[1].key = LeastRecentlyTouched
             /\ Len(cache') = CACHE_MAX_SIZE
             /\ InCache(cache', key)]_vars

\* a put has evicted an entry stored later than one that stays, which a get
\* had touched since
C4_Witness ==
    /\ last_op.op = "put"
    /\ Len(last_op.dropped) = 1
    /\ \E i \in 1..Len(cache) :
          /\ cache[i].key # last_op.key
          /\ cache[i].timestamp < last_op.dropped[1].timestamp

\* C5: a get of an entry stored less than CACHE_TTL_SECONDS ago returns its
\* payload and keeps it; a get of an entry stored more than CACHE_TTL_SECONDS
\* ago returns None and removes that entry, and no other
C5_FreshOrExpired ==
    [][\A key \in CallKeys :
          (CacheGetOp(key) /\ InCache(cache, key))
          => LET entry == cache[IndexOf(cache, key)]
             IN  /\ now - entry.timestamp < CACHE_TTL_SECONDS
                    => /\ last_op'.value = entry.data
                       /\ InCache(cache', key)
                 /\ now - entry.timestamp > CACHE_TTL_SECONDS
                    => /\ last_op'.value = None
                       /\ cache' = Delete(cache, key)
                       /\ ~InCache(cache', key)]_vars

\* a get has found its entry expired and removed it, another entry stays
C5_Witness ==
    /\ last_op.op = "get"
    /\ last_op.value = None
    /\ Len(last_op.dropped) = 1
    /\ last_op.dropped[1].key = last_op.key
    /\ now - last_op.dropped[1].timestamp > CACHE_TTL_SECONDS
    /\ cache # <<>>

\* C6 as stated: after a get that finds a fresh entry, the entry is the most
\* recent one and its timestamp is the time of the get
C6_TimestampRefreshed ==
    (last_op.op = "get" /\ last_op.value # None)
    => /\ cache[Len(cache)].key = last_op.key
       /\ cache[Len(cache)].timestamp = now

\* C6: a get that finds a fresh entry moves it to the most recent position
\* and leaves its timestamp and payload as they were stored; the other
\* entries keep their order
C6_MovedNotRefreshed ==
    [][\A key \in CallKeys :
          (CacheGetOp(key) /\ last_op'.value # None)
          => /\ cache'[Len(cache')] = cache[IndexOf(cache, key)]
             /\ cache' = Append(Delete(cache, key), cache[IndexOf(cache, key)])]_vars

\* a get has found an entry stored before the current second and moved it
\* behind an entry stored later
C6_Witness ==
    /\ last_op.op = "get"
    /\ last_op.value # None
    /\ cache[Len(cache)].key = last_op.key
    /\ cache[Len(cache)].timestamp < now
    /\ \E i \in 1..(Len(cache) - 1) :
          cache[i].timestamp > cache[Len(cache)].timestamp

(***************************************************************************)
(* Properties of the cache key                                             *)
(***************************************************************************)
\* the key _request derives for a request
KeyOfRequest(r) == cache_key(r.endpoint, WithDefaults(r.params))

\* whether the character at position i of a text survives normalisation: a
\* character that is not whitespace does, and so does the first whitespace
\* character of a run that has text on both sides
Survives(text, i) ==
    \/ ~IsSpace(text[i])
    \/ /\ i > 1
       /\ ~IsSpace(text[i - 1])
       /\ \E j \in (i + 1)..Len(text) : ~IsSpace(text[j])

RECURSIVE NormalFrom(_, _)
\* the normal form of a text from position i on: lower case, no whitespace
\* at the ends, one space for each run of whitespace
NormalFrom(text, i) ==
    IF i > Len(text) THEN <<>>
    ELSE IF Survives(text, i)
         THEN <<IF IsSpace(text[i]) THEN " " ELSE LowerChar(text[i])>>
              \o NormalFrom(text, i + 1)
         ELSE NormalFrom(text, i + 1)

\* a request after normalisation: its endpoint and the set of its parameters,
\* defaults included, each str value in normal form
NormalRequest(r) ==
    LET params == WithDefaults(r.params)
    IN  [endpoint |-> r.endpoint,
         params |-> { IF params[i].isStr
                      THEN [params[i] EXCEPT !.v = NormalFrom(params[i].v, 1)]
                      ELSE params[i] : i \in 1..Len(params) }]

\* C7: requests that differ only in letter case, in whitespace at the ends
\* or in the length and kind of whitespace runs have the same key, and two
\* requests have the same key exactly if their endpoint and normalised
\* parameters are the same
C7_KeyOfNormalForm ==
    /\ kequiv => KeyOfRequest(ka) = KeyOfRequest(kb)
    /\ KeyOfRequest(ka) = KeyOfRequest(kb) <=> NormalRequest(ka) = NormalRequest(kb)

\* two requests with one key whose queries differ in length, in letter case
\* and in the order the parameters are given
C7_Witness ==
    /\ kequiv
    /\ KeyOfRequest(ka) = KeyOfRequest(kb)
    /\ Len(QueryOf(ka)) # Len(QueryOf(kb))
    /\ Lower(QueryOf(ka)) = QueryOf(ka)
    /\ Lower(QueryOf(kb)) # QueryOf(kb)
    /\ ka.params[1].name # kb.params[1].name

(***************************************************************************)
(* Properties of the request executor                                      *)
(***************************************************************************)
\* the positions in the cache of the entries stored under a key
EntriesOf(c, key) == {i \in 1..Len(c) : c[i].key = key}

\* the set of keys a cache holds
KeySet(c) == {c[i].key : i \in 1..Len(c)}

\* C8: a request whose key has an entry no older than CACHE_TTL_SECONDS
\* returns that entry's payload at once, without passing the rate limiter or
\* issuing a call; a request answered 200 whose key has no entry stores
\* exactly one entry, under that key, with the payload it returns
C8_RepeatServedFromCache ==
    [][/\ \A p \in Procs, n \in 1..Len(Calls) :
             (/\ StartRequest(p, n)
              /\ InCache(cache, KeyOfCall(n))
              /\ now - cache[IndexOf(cache, KeyOfCall(n))].timestamp
                    <= CACHE_TTL_SECONDS)
             => /\ last_end'.p = p /\ last_end'.kind = "ok"
                /\ last_end'.data = cache[IndexOf(cache, KeyOfCall(n))].data
                /\ pc'[p] = "idle"
                /\ UNCHANGED <<last_request_time, departures, calls, issued>>
       /\ \A p \in Procs, body \in Bodies :
             (HttpResponse(p, 200, body) /\ ~InCache(cache, KeyOfCall(req[p])))
             => /\ last_end'.p = p /\ last_end'.kind = "ok"
                /\ last_end'.data = body
                /\ KeySet(cache') \ KeySet(cache) = {KeyOfCall(req[p])}
                /\ \E i \in 1..Len(cache') :
                      /\ EntriesOf(cache', KeyOfCall(req[p])) = {i}
                      /\ cache'[i] = Entry(KeyOfCall(req[p]), body, now)]_vars

\* a search is served from the entry an earlier search for the same place,
\* written in another case and spacing, stored in an earlier second, while
\* the cache holds another entry too
C8_Witness ==
    /\ last_end.hit
    /\ last_end.n = 2
    /\ Len(cache) = 2
    /\ cache[Len(cache)].key = KeyOfCall(2)
    /\ cache[Len(cache)].data = last_end.data
    /\ cache[Len(cache)].timestamp < now

\* C9: a 429 or 503 on an attempt before the last is followed by a backoff
\* and another call; no request issues more than MAX_RETRIES + 1 calls; a
\* 200 on the n-th call ends the request successfully after n calls
C9_RetriesBounded ==
    /\ [](\A p \in Procs :
            /\ calls[p] <= MAX_RETRIES + 1
            /\ pc[p] = "http" => calls[p] = attempt[p] + 1)
    /\ [][\A p \in Procs :
            /\ \A status \in RETRYABLE_STATUS_CODES :
                  (HttpResponse(p, status, None) /\ attempt[p] < MAX_RETRIES)
                  => pc'[p] = "backoff" /\ last_end' = NoEnd
            /\ \A body \in Bodies :
                  HttpResponse(p, 200, body)
                  => /\ last_end'.p = p /\ last_end'.kind = "ok"
                     /\ last_end'.calls = attempt[p] + 1
                     /\ last_end'.answers.n = attempt[p] + 1
                     /\ pc'[p] = "idle"]_vars
    /\ \A p \in Procs, k \in 1..MAX_RETRIES :
          (pc[p] = "backoff" /\ calls[p] = k) ~> (pc[p] = "http" /\ calls[p] = k + 1)

\* a request has succeeded on its last allowed call, after MAX_RETRIES
\* answers of 429 or 503
C9_Witness ==
    /\ last_end.kind = "ok"
    /\ ~last_end.hit
    /\ last_end.calls = MAX_RETRIES + 1
    /\ last_end.answers = [n |-> MAX_RETRIES + 1, final |-> 1]

\* C10: when the call of the last attempt is answered 429 or 503 after
\* MAX_RETRIES such answers, the request ends without another call: with the
\* rate-limited error on a 429, with the API error of status 503 on a 503
C10_ExhaustedRetries ==
    /\ [](\A p \in Procs :
            (pc[p] = "http" /\ attempt[p] = MAX_RETRIES)
            => answers[p] = [n |-> MAX_RETRIES, final |-> 0])
    /\ [][\A p \in Procs, status \in RETRYABLE_STATUS_CODES :
            (HttpResponse(p, status, None) /\ attempt[p] = MAX_RETRIES)
            => /\ last_end'.p = p
               /\ last_end'.calls = MAX_RETRIES + 1
               /\ status = 429 => last_end'.kind = "rate_limited"
               /\ status = 503 => /\ last_end'.kind = "api_error"
                                  /\ last_end'.status = 503
               /\ pc'[p] = "idle"
               /\ UNCHANGED <<last_request_time, departures, cache>>]_vars

\* a request has ended with the rate-limited error after MAX_RETRIES + 1
\* calls, all answered 429 or 503
C10_Witness ==
    /\ last_end.kind = "rate_limited"
    /\ last_end.calls = MAX_RETRIES + 1
    /\ last_end.answers = [n |-> MAX_RETRIES + 1, final |-> 0]

\* C11: a response whose status is neither 200 nor 429 nor 503 ends the
\* request at once with the API error of that status, after the one call it
\* answers and without a backoff sleep; as the first response of a request,
\* after exactly one call
C11_NonRetryableEndsAtOnce ==
    [][\A p \in Procs, status \in Statuses \ ({200} \cup RETRYABLE_STATUS_CODES) :
          HttpResponse(p, status, None)
          => /\ last_end'.p = p
             /\ last_end'.kind = "api_error"
             /\ last_end'.status = status
             /\ last_end'.calls = attempt[p] + 1
             /\ pc'[p] = "idle"
             /\ UNCHANGED <<wake, cache, last_request_time, departures>>]_vars

\* a request has ended with the API error of status 500 on its first response
C11_Witness ==
    /\ last_end.kind = "api_error"
    /\ last_end.status = 500
    /\ last_end.calls = 1
    /\ last_end.answers = [n |-> 1, final |-> 1]

\* C12: a transport failure on any attempt ends the request at once with
\* the network error: no backoff, no further call, nothing cached
C12_TransportFailureIsFinal ==
    [][\A p \in Procs :
          HttpFail(p)
          => /\ last_end'.p = p
             /\ last_end'.kind = "network_error"
             /\ last_end'.calls = attempt[p] + 1
             /\ pc'[p] = "idle"
             /\ UNCHANGED <<wake, cache, last_request_time, departures>>]_vars

\* a request has ended with the network error on a retry, after an answer
\* of 429 or 503
C12_Witness ==
    /\ last_end.kind = "network_error"
    /\ last_end.calls = 2
    /\ last_end.answers = [n |-> 1, final |-> 0]

\* the delays the default configuration gives, by attempt index from 0
DefaultDelays == <<2, 4, 8>>

\* C13: after a 429 or 503 on the attempt with index k < MAX_RETRIES the
\* task sleeps RETRY_BASE_DELAY * 2^k seconds (2, 4, 8) before its next
\* attempt and not less; after any other response, and after the response
\* to the last permitted attempt, it does not sleep
C13_BackoffDoubles ==
    /\ [][\A p \in Procs, status \in Statuses :
            \A body \in (IF status = 200 THEN Bodies ELSE {None}) :
                HttpResponse(p, status, body)
                => IF status \in RETRYABLE_STATUS_CODES /\ attempt[p] < MAX_RETRIES
                   THEN /\ pc'[p] = "backoff"
                        /\ wake'[p] - now = RETRY_BASE_DELAY * (2 ^ attempt[p])
                        /\ wake'[p] - now = DefaultDelays[attempt[p] + 1]
                   ELSE pc'[p] = "idle" /\ wake' = wake]_vars
    /\ [][\A p \in Procs :
            BackoffEnd(p) => now >= wake[p] /\ attempt'[p] = attempt[p] + 1]_vars

\* a task starts its third backoff sleep, of 8 seconds
C13_Witness ==
    \E p \in Procs :
        /\ pc[p] = "backoff"
        /\ attempt[p] = MAX_RETRIES - 1
        /\ wake[p] - now = 8

(***************************************************************************)
(* Properties of the client's public methods                               *)
(***************************************************************************)
\* C14: whenever _request returned the body of a 200 response (an object, a
\* non-empty array or an empty array), search and lookup return a list, the
\* body itself or the one-element list of the object, and reverse returns an
\* object, the body itself or the first element of the array.
C14_ReturnShapes ==
    last_return.request.kind = "return" =>
        LET body == last_return.request.value
            ret == last_return.ret
        IN  /\ ret.kind = "return"
            /\ IF last_return.call.endpoint \in {"search", "lookup"}
               THEN /\ IsList(ret.value)
                    /\ IsDict(body) => ret.value.items = <<body>>
                    /\ IsList(body) => ret.value = body
               ELSE /\ IsDict(ret.value)
                    /\ IsDict(body) => ret.value = body
                    /\ IsList(body) => ret.value = body.items[1]

\* reverse was answered with an empty array and raised IndexError
C14_Witness ==
    /\ last_return.call.endpoint = "reverse"
    /\ last_return.request = Returned(JsonList(<<>>))
    /\ last_return.ret.kind = "raise" /\ last_return.ret.exc = "IndexError"
    /\ outcome.op.name = "reverse" /\ outcome.result = last_return.ret

(***************************************************************************)
(* Properties of the Geocoder                                              *)
(***************************************************************************)
\* a query text that is empty or consists of whitespace only
BlankQuery(query) == \A k \in 1..Len(query) : IsSpace(query[k])
QueryOps == {"geocode", "bbox_from_place"}
PointOps == {"reverse_geocode", "nearby_places", "admin_boundaries"}

\* C15: geocode and bbox_from_place called with an empty or whitespace-only
\* query, and reverse_geocode, nearby_places and admin_boundaries called with
\* a latitude outside [-90, 90] or a longitude outside [-180, 180], end at
\* once with a ValueError of the validation; no client method is called and
\* the client is left as it was.  Called with the latitudes -90 and 90 and
\* the longitudes -180 and 180 the three operations go on to their first
\* reverse lookup of that point.
C15_ValidatedBeforeClient ==
    [][\A t \in GeoCalls : Call(t) =>
          /\ (\/ t.name \in QueryOps /\ BlankQuery(t.query)
              \/ t.name \in PointOps
                    /\ (t.lat < -90 \/ t.lat > 90 \/ t.lon < -180 \/ t.lon > 180))
             => /\ outcome'.result.kind = "raise"
                /\ outcome'.result.exc = "ValueError"
                /\ outcome'.result.msg \in {"EMPTY_QUERY", "INVALID_LAT", "INVALID_LON"}
                /\ task' = NoTask /\ pending' = <<>> /\ client_log' = <<>>
                /\ UNCHANGED <<now, cache, clientVars>>
          /\ (t.name \in PointOps /\ t.lat \in {-90, 90} /\ t.lon \in {-180, 180})
             => /\ outcome'.result = NoResult
                /\ pending' = <<ReverseCall(t.lat, t.lon, 18)>>]_vars

\* reverse_geocode at latitude 90 and longitude 181 was refused for its
\* longitude without a client call
C15_Witness ==
    /\ outcome.op.name = "reverse_geocode"
    /\ outcome.op.lat = 90 /\ outcome.op.lon = 181
    /\ outcome.result.kind = "raise" /\ outcome.result.msg = "INVALID_LON"
    /\ outcome.result.about = <<181>>
    /\ client_log = <<>> /\ pending = <<>>

\* C16: when the search of a geocode has ended, the geocode has failed with
\* the not-found error naming its query exactly if the search returned an
\* empty list, and if the search returned a non-empty list it has returned
\* one GeocodeItem per raw result, the k-th item parsed from the k-th result.
C16_NotFoundOrItems ==
    (outcome.op.name = "geocode" /\ last_return.call.endpoint = "search") =>
        LET found == last_return.ret
            res == outcome.result
        IN  /\ (res.kind = "raise" /\ res.msg = "NO_RESULTS")
                   <=> (found.kind = "return" /\ found.value.items = <<>>)
            /\ (res.kind = "raise" /\ res.msg = "NO_RESULTS")
                   => (res.exc = "ValueError" /\ res.about = <<outcome.op.query>>)
            /\ (found.kind = "return" /\ found.value.items # <<>>)
                   => /\ res.kind = "return"
                      /\ Len(res.value.items) = Len(found.value.items)
                      /\ \A k \in 1..Len(found.value.items) :
                            /\ res.value.items[k].kind = "GeocodeItem"
                            /\ res.value.items[k].display_name
                                  = found.value.items[k].display_name
                            /\ res.value.items[k].lat = found.value.items[k].lat
                            /\ res.value.items[k].lon = found.value.items[k].lon

\* a geocode whose search returned P2 before P1 has returned the two items
\* in that order
C16_Witness ==
    /\ outcome.op.name = "geocode" /\ outcome.result.kind = "return"
    /\ last_return.ret.kind = "return" /\ Len(last_return.ret.value.items) = 2
    /\ outcome.result.value.items[1].display_name = "P2"
    /\ outcome.result.value.items[2].display_name = "P1"

\* a batch_geocode whose list passes the size checks
BatchRuns ==
    /\ outcome.op.name = "batch_geocode"
    /\ outcome.op.queries # <<>> /\ Len(outcome.op.queries) <= BATCH_MAX_QUERIES
\* the operation called last has ended
Ended == task = NoTask /\ outcome.result # NoResult
\* the number of the first i queries that pass validation, each of which
\* starts one search
Searches(queries, i) == Cardinality({ k \in 1..i : ~BlankQuery(queries[k]) })
\* whether the geocode of the i-th query of an ended batch succeeded: the
\* query passed validation and its search returned at least one result
Succeeded(queries, i) ==
    /\ ~BlankQuery(queries[i])
    /\ client_returns[Searches(queries, i)] > 0

\* C17: a batch_geocode of a non-empty list of at most BATCH_MAX_QUERIES
\* queries never raises, whatever its searches return or raise; when it has
\* ended it has returned one BatchItem per query, the i-th carrying the i-th
\* query, with results and no error if that query's geocode succeeded and
\* with an error and no results if it failed.
C17_BatchNeverRaises ==
    BatchRuns =>
        /\ outcome.result.kind # "raise"
        /\ Ended =>
              LET queries == outcome.op.queries
                  items == outcome.result.value.items
              IN  /\ outcome.result.kind = "return"
                  /\ Len(items) = Len(queries)
                  /\ \A i \in 1..Len(queries) :
                        /\ items[i].kind = "BatchItem"
                        /\ items[i].query = queries[i]
                        /\ IF Succeeded(queries, i)
                           THEN /\ items[i].results.kind = "list"
                                /\ items[i].results.items # <<>>
                                /\ items[i].error.kind = "None"
                           ELSE /\ items[i].results.kind = "None"
                                /\ items[i].error.kind = "str"

\* a batch of three queries has ended: the first succeeded, the second found
\* nothing and the third failed validation
C17_Witness ==
    /\ BatchRuns /\ Ended
    /\ outcome.op.queries = << <<"A">>, <<"b">>, <<" ">> >>
    /\ outcome.result.value.items[1].results.kind = "list"
    /\ outcome.result.value.items[2].error.msg = "NO_RESULTS"
    /\ outcome.result.value.items[3].error.msg = "EMPTY_QUERY"

\* the position in the list of the query whose search is the k-th
SearchedQuery(queries, k) ==
    CHOOSE i \in 1..Len(queries) : ~BlankQuery(queries[i]) /\ Searches(queries, i) = k

\* C18: during a batch_geocode at most one client call is outstanding (calls
\* started minus calls ended); the calls it has started are the searches of
\* its valid queries in input order, without gaps; and while the search of
\* the i-th query is outstanding the batch holds the items of exactly the
\* i - 1 queries before it, so each of them has returned or failed.
C18_BatchSequential ==
    outcome.op.name = "batch_geocode" =>
        LET queries == outcome.op.queries IN
        /\ Len(pending) <= 1
        /\ Len(client_log) - Len(client_returns) = Len(pending)
        /\ \A k \in 1..Len(client_log) :
              /\ Searches(queries, Len(queries)) >= k
              /\ client_log[k] = SearchCall(queries[SearchedQuery(queries, k)],
                                            outcome.op.limit)
        /\ pending # <<>> =>
              /\ pending[1] = client_log[Len(client_log)]
              /\ SearchedQuery(queries, Len(client_log)) = task.i
              /\ Len(task.acc) = task.i - 1
              /\ \A k \in 1..(task.i - 1) : task.acc[k].query = queries[k]

\* the search of the third query of a batch is outstanding after the
\* searches of the first two have ended, one with a result and one raising
C18_Witness ==
    /\ outcome.op.name = "batch_geocode"
    /\ Len(pending) = 1 /\ Len(client_log) = 3
    /\ client_returns = <<1, -1>>
    /\ task.i = 3 /\ Len(task.acc) = 2

\* C19: batch_geocode called with an empty list, or with a list of more than
\* BATCH_MAX_QUERIES queries, ends at once with the ValueError of the size
\* check and no client call is started; called with exactly BATCH_MAX_QUERIES
\* queries it does not raise and goes on to geocode them.
C19_BatchSizeChecked ==
    [][\A t \in GeoCalls : (Call(t) /\ t.name = "batch_geocode") =>
          /\ t.queries = <<>>
             => /\ outcome'.result = Raised("ValueError", "BATCH_EMPTY", <<>>)
                /\ task' = NoTask /\ pending' = <<>> /\ client_log' = <<>>
          /\ Len(t.queries) > BATCH_MAX_QUERIES
             => /\ outcome'.result = Raised("ValueError", "BATCH_TOO_LARGE",
                                            <<Len(t.queries), BATCH_MAX_QUERIES>>)
                /\ task' = NoTask /\ pending' = <<>> /\ client_log' = <<>>
          /\ Len(t.queries) = BATCH_MAX_QUERIES
             => /\ outcome'.result.kind # "raise"
                /\ \/ /\ \E k \in 1..BATCH_MAX_QUERIES :
                            pending' = <<SearchCall(t.queries[k], t.limit)>>
                      /\ task'.name = "batch_geocode"
                   \/ /\ \A k \in 1..BATCH_MAX_QUERIES : BlankQuery(t.queries[k])
                      /\ Len(outcome'.result.value.items) = BATCH_MAX_QUERIES]_vars

\* a batch of one query more than the cap was refused without a client call
C19_Witness ==
    /\ outcome.op.name = "batch_geocode"
    /\ Len(outcome.op.queries) = BATCH_MAX_QUERIES + 1
    /\ \A k \in 1..Len(outcome.op.queries) : ~BlankQuery(outcome.op.queries[k])
    /\ outcome.result.kind = "raise" /\ outcome.result.msg = "BATCH_TOO_LARGE"
    /\ client_log = <<>> /\ task = NoTask

\* the sum of the first n leg distances of a route
RECURSIVE LegSum(_, _)
LegSum(legs, n) == IF n = 0 THEN 0 ELSE LegSum(legs, n - 1) + legs[n].distance_m

\* a route_waypoints whose list passes the size check
RouteRuns == outcome.op.name = "route_waypoints" /\ Len(outcome.op.queries) >= 2
\* every waypoint of the ended route resolved: its text passed validation
\* and its search returned at least one result
AllResolved ==
    /\ \A k \in 1..Len(outcome.op.queries) : ~BlankQuery(outcome.op.queries[k])
    /\ Len(client_returns) = Len(outcome.op.queries)
    /\ \A k \in 1..Len(client_returns) : client_returns[k] > 0
\* the waypoints resolved so far, after a step of the route
ResolvedAfter ==
    IF task'.name = "route_waypoints" THEN task'.acc
    ELSE outcome'.result.value.waypoints

\* C20: a route_waypoints of n >= 2 waypoints returns a RouteResult exactly
\* if all of them resolved.  The result has n waypoints and n - 1 legs; leg i
\* carries the names of waypoints i and i + 1 and their rounded distance; the
\* total differs from the sum of the leg distances by at most half a tenth
\* of a metre per rounding (n roundings).  Each search that returns results
\* is the search of the waypoint text in turn and, unless the next text
\* fails validation and ends the route, appends its first result to the
\* resolved waypoints, so these are in input order.
C20_RouteLegs ==
    /\ [](RouteRuns /\ Ended =>
            /\ outcome.result.kind = "return" <=> AllResolved
            /\ outcome.result.kind = "return" =>
                  LET n == Len(outcome.op.queries)
                      route == outcome.result.value
                  IN  /\ Len(route.waypoints) = n
                      /\ Len(route.legs) = n - 1
                      /\ \A i \in 1..(n - 1) :
                            /\ route.legs[i].from_name = route.waypoints[i].name
                            /\ route.legs[i].to_name = route.waypoints[i + 1].name
                            /\ route.legs[i].distance_m
                                  = round1(haversine_distance(
                                        route.waypoints[i].lat, route.waypoints[i].lon,
                                        route.waypoints[i + 1].lat,
                                        route.waypoints[i + 1].lon))
                      /\ 2 * Abs(route.total_distance_m - LegSum(route.legs, n - 1))
                            <= 10 * n)
    /\ [][(/\ RouteRuns /\ task.name = "route_waypoints"
           /\ last_return'.ret.kind = "return"
           /\ last_return'.ret.value.items # <<>>)
          => LET first == last_return'.ret.value.items[1] IN
             /\ last_return'.call = SearchCall(outcome.op.queries[task.i], 1)
             /\ outcome'.result.kind # "raise"
                => /\ Len(ResolvedAfter) = task.i
                   /\ SubSeq(ResolvedAfter, 1, task.i - 1) = task.acc
                   /\ ResolvedAfter[task.i].name = first.display_name
                   /\ ResolvedAfter[task.i].lat = first.lat
                   /\ ResolvedAfter[task.i].lon = first.lon]_vars

\* a route over P1, P2 and P3 has two legs of 111194.9 m each and a total of
\* 222389.9 m, a tenth more than the sum of its legs
C20_Witness ==
    /\ RouteRuns /\ Ended /\ outcome.result.kind = "return"
    /\ Len(outcome.op.queries) = 3
    /\ outcome.result.value.legs[1].from_name = "P1"
    /\ outcome.result.value.legs[1].to_name = "P2"
    /\ outcome.result.value.legs[2].to_name = "P3"
    /\ outcome.result.value.legs[1].distance_m = 11119490
    /\ outcome.result.value.total_distance_m = 22238990
    /\ LegSum(outcome.result.value.legs, 2) = 22238980

\* the waypoints of the route whose geocode has failed so far: the text
\* fails validation, or its search has ended without a result
FailedWaypoints ==
    { k \in 1..Len(outcome.op.queries) :
         \/ BlankQuery(outcome.op.queries[k])
         \/ k <= Len(client_returns) /\ client_returns[k] <= 0 }
FirstFailed == CHOOSE k \in FailedWaypoints : \A j \in FailedWaypoints : k <= j

\* C21: a route_waypoints of fewer than 2 waypoints ends with the ValueError
\* of the size check and starts no client call.  Otherwise its client calls
\* are the searches of its waypoints in order, none beyond the first
\* waypoint whose geocode fails; when it has ended and a waypoint's geocode
\* has failed, it has raised the error of the first such waypoint (the
\* validation error, the not-found error naming the waypoint, or the error
\* its search raised) and the search of that waypoint, if any, was its last
\* client call.
C21_RouteAborts ==
    outcome.op.name = "route_waypoints" =>
        LET waypoints == outcome.op.queries IN
        IF Len(waypoints) < 2
        THEN /\ client_log = <<>>
             /\ Ended /\ outcome.result = Raised("ValueError", "WAYPOINTS_MIN", <<>>)
        ELSE /\ \A k \in 1..Len(client_log) :
                   /\ k <= Len(waypoints)
                   /\ client_log[k] = SearchCall(waypoints[k], 1)
                   /\ \A j \in 1..(k - 1) : j \notin FailedWaypoints
             /\ Ended /\ FailedWaypoints # {} =>
                   LET f == FirstFailed IN
                   /\ outcome.result.kind = "raise"
                   /\ IF BlankQuery(waypoints[f])
                      THEN /\ outcome.result = Raised("ValueError", "EMPTY_QUERY", <<>>)
                           /\ Len(client_log) = f - 1
                      ELSE /\ Len(client_log) = f
                           /\ Len(client_returns) = f
                           /\ IF client_returns[f] = 0
                              THEN outcome.result
                                     = Raised("ValueError", "NO_RESULTS", <<waypoints[f]>>)
                              ELSE /\ outcome.result = last_return.ret
                                   /\ outcome.result.msg
                                        \in {"RATE_LIMITED", "API_ERROR", "NETWORK_ERROR"}

\* a route of three waypoints has ended with the not-found error of its
\* second waypoint; the third was never searched
C21_Witness ==
    /\ outcome.op.name = "route_waypoints" /\ Ended
    /\ outcome.op.queries = << <<"A">>, <<"b">>, <<"A">> >>
    /\ client_returns = <<1, 0>>
    /\ Len(client_log) = 2
    /\ outcome.result = Raised("ValueError", "NO_RESULTS", << <<"b">> >>)

\* box outer encloses box inner, both [west, south, east, north]
Encloses(outer, inner) ==
    /\ outer[1] <= inner[1]
    /\ outer[2] <= inner[2]
    /\ outer[3] >= inner[3]
    /\ outer[4] >= inner[4]

\* m is the least (sign = 1) or the greatest (sign = -1) of the i-th
\* coordinates of the boxes
Extreme(m, bboxes, i, sign) ==
    /\ \E k \in 1..Len(bboxes) : bboxes[k][i] = m
    /\ \A k \in 1..Len(bboxes) : sign * m <= sign * bboxes[k][i]

\* C22: bbox_union of a non-empty list of boxes is [min west, min south,
\* max east, max north], so it encloses every input box and equals the
\* input when all boxes are the same one; for the empty list it is
\* [0,0,0,0]; the bbox of a route is the union of the resolved waypoints'
\* bboxes and encloses each of them.
C22_BboxUnion ==
    /\ applied.fn = "bbox_union" =>
        LET bboxes == applied.arg
            u == applied.val
        IN  IF Len(bboxes) = 0 THEN u = <<0, 0, 0, 0>>
            ELSE /\ Extreme(u[1], bboxes, 1, 1)
                 /\ Extreme(u[2], bboxes, 2, 1)
                 /\ Extreme(u[3], bboxes, 3, -1)
                 /\ Extreme(u[4], bboxes, 4, -1)
                 /\ \A k \in 1..Len(bboxes) : Encloses(u, bboxes[k])
                 /\ (\A k \in 1..Len(bboxes) : bboxes[k] = bboxes[1]) => u = bboxes[1]
    /\ applied.fn = "route_waypoints" =>
        LET resolved == applied.arg
            route == applied.val
            boxes == [k \in 1..Len(resolved) |-> resolved[k].bbox]
        IN  /\ Len(route.waypoints) = Len(resolved)
            /\ Extreme(route.bbox[1], boxes, 1, 1)
            /\ Extreme(route.bbox[2], boxes, 2, 1)
            /\ Extreme(route.bbox[3], boxes, 3, -1)
            /\ Extreme(route.bbox[4], boxes, 4, -1)
            /\ \A k \in 1..Len(route.waypoints) : Encloses(route.bbox, route.waypoints[k].bbox)

\* the bbox of a route over P1, P2 and P3 is larger than each waypoint's
C22_Witness ==
    /\ applied.fn = "route_waypoints"
    /\ Len(applied.arg) = 3
    /\ \A k \in 1..3 : applied.val.bbox # applied.arg[k].bbox
    /\ \A j, k \in 1..3 : j # k => applied.arg[j].bbox # applied.arg[k].bbox

\* a nearby_places whose coordinates pass validation
NearbyRuns ==
    /\ outcome.op.name = "nearby_places"
    /\ outcome.op.lat >= -90 /\ outcome.op.lat <= 90
    /\ outcome.op.lon >= -180 /\ outcome.op.lon <= 180

\* C23: a nearby_places with valid coordinates issues four reverse lookups
\* at zoom 18, 16, 14, 10 in that order and then one bounded viewbox
\* search, each after the previous one has ended and whatever it ended
\* with; it ends after the fifth, returning a list.
C23_NearbyProbes ==
    NearbyRuns =>
        /\ Len(client_log) <= 5
        /\ \A k \in 1..Len(client_log) :
              client_log[k] =
                  IF k <= 4
                  THEN ReverseCall(outcome.op.lat, outcome.op.lon, <<18, 16, 14, 10>>[k])
                  ELSE ViewboxCall(outcome.op.lat, outcome.op.lon)
        /\ Len(client_log) = Len(client_returns) + (IF Ended THEN 0 ELSE 1)
        /\ Ended <=> Len(client_returns) = 5
        /\ Ended => outcome.result.kind = "return" /\ IsList(outcome.result.value)
        /\ ViewboxCall(outcome.op.lat, outcome.op.lon).bounded
        /\ ViewboxCall(outcome.op.lat, outcome.op.lon).endpoint = "search"

\* the first two probes and the viewbox search failed, and a place was found
\* by a later probe
C23_Witness ==
    /\ NearbyRuns /\ Ended
    /\ client_returns[1] = -1 /\ client_returns[2] = -1 /\ client_returns[5] = -1
    /\ client_returns[4] = 1
    /\ Len(outcome.result.value.items) = 1

\* the raw results the probes of a nearby_places yielded, in probe order: one
\* per reverse lookup that returned, then those of the viewbox search
RECURSIVE ProbeRaws(_)
ProbeRaws(rets) ==
    IF rets = <<>> THEN <<>>
    ELSE LET ret == Head(rets) IN
         (IF ret.kind = "raise" THEN <<>>
          ELSE IF IsDict(ret.value) THEN <<ret.value>>
          ELSE ret.value.items) \o ProbeRaws(Tail(rets))

\* C24: no two items returned by nearby_places have the same display name
\* and none has an empty one; each returned item is the one of the first
\* raw result in probe order that carries its name.
C24_NearbyDistinct ==
    applied.fn = "nearby_places" =>
        LET items == applied.val.value.items
            raws == ProbeRaws(applied.arg.rets)
        IN  /\ \A j, k \in 1..Len(items) :
                  j # k => items[j].display_name # items[k].display_name
            /\ \A k \in 1..Len(items) :
                  /\ items[k].display_name # ""
                  /\ \E f \in 1..Len(raws) :
                        /\ raws[f].display_name = items[k].display_name
                        /\ \A e \in 1..(f - 1) : raws[e].display_name # items[k].display_name
                        /\ items[k].lat = raws[f].lat
                        /\ items[k].lon = raws[f].lon
                        /\ items[k].place_type = raws[f].type

\* the second probe yields A one degree away, the third a nameless place,
\* the fourth A at the point, the viewbox search A and B: A is returned once,
\* as the second probe found it
C24_Witness ==
    /\ applied.fn = "nearby_places"
    /\ applied.arg.op.limit = 10 /\ applied.arg.op.categories = {}
    /\ applied.arg.rets[2] = Returned(NearbyRaw("A", 1, <<"river">>))
    /\ applied.arg.rets[3] = Returned(NearbyRaw("", 1, <<"city">>))
    /\ applied.arg.rets[4] = Returned(NearbyRaw("A", 0, <<"city">>))
    /\ applied.arg.rets[5].kind = "return"
    /\ Len(applied.arg.rets[5].value.items) = 2
    /\ Len(applied.val.value.items) = 2
    /\ applied.val.value.items[1].display_name = "A"
    /\ applied.val.value.items[1].lat = 1

\* the raw results a nearby_places may return: the first of each non-empty
\* name in probe order, of a type in categories when categories are given
Candidates(raws, categories) ==
    { f \in 1..Len(raws) :
         /\ raws[f].display_name # ""
         /\ \A e \in 1..(f - 1) : raws[e].display_name # raws[f].display_name
         /\ categories = {} \/ (raws[f].type # <<>> /\ raws[f].type[1] \in categories) }
\* the distance of a raw result from the query point of op, as an item reports it
DistanceOf(op, raw) == round1(haversine_distance(op.lat, op.lon, raw.lat, raw.lon))

\* C25: the list nearby_places returns is sorted ascending by distance, items
\* at distance 0 included, and holds at most limit items: the limit nearest
\* of those left by the place-type filter.  (Every item carries a distance,
\* so none has an unknown one.)
C25_NearbySorted ==
    applied.fn = "nearby_places" =>
        LET op == applied.arg.op
            items == applied.val.value.items
            raws == ProbeRaws(applied.arg.rets)
            left == Candidates(raws, op.categories)
            Kept(f) == \E k \in 1..Len(items) : items[k].display_name = raws[f].display_name
        IN  /\ \A k \in 1..(Len(items) - 1) : items[k].distance_m <= items[k + 1].distance_m
            /\ Len(items) <= op.limit
            /\ Len(items) = IF Cardinality(left) < op.limit THEN Cardinality(left)
                            ELSE op.limit
            /\ \A f \in left : \A g \in left :
                  Kept(f) /\ ~Kept(g) => DistanceOf(op, raws[f]) <= DistanceOf(op, raws[g])

\* a place at the query point itself and a place two degrees away are found:
\* the returned list has the far one first
C25_Witness ==
    /\ applied.fn = "nearby_places"
    /\ applied.arg.op.limit = 10
    /\ Len(applied.val.value.items) = 2
    /\ applied.val.value.items[1].distance_m > 0
    /\ applied.val.value.items[2].distance_m = 0

\* C26: admin_boundaries returns one item per key of the list country, state,
\* county, city, town, village, suburb, neighbourhood that is in the address
\* map of the reverse result, named by that key's value, in the order of
\* the list whatever the order of the map; other keys give no item.
C26_AdminBoundaries ==
    applied.fn = "admin_boundaries" =>
        LET address == applied.arg
            boundaries == applied.val.value.boundaries
            levels == <<"country", "state", "county", "city", "town", "village",
                        "suburb", "neighbourhood">>
            present == { k \in 1..Len(levels) :
                            \E j \in 1..Len(address) : address[j].key = levels[k] }
        IN  /\ Len(boundaries) = Cardinality(present)
            /\ \A i \in 1..Len(boundaries) :
                  \E k \in present :
                      /\ Cardinality({ h \in present : h < k }) = i - 1
                      /\ boundaries[i].level = levels[k]
                      /\ \E j \in 1..Len(address) :
                            /\ address[j].key = levels[k]
                            /\ address[j].value = boundaries[i].name

\* the address lists suburb, road, country: the items are country, suburb
C26_Witness ==
    /\ applied.fn = "admin_boundaries"
    /\ applied.arg = <<AddressEntry("suburb", "X"), AddressEntry("road", "Y"),
                       AddressEntry("country", "Y")>>
    /\ Len(applied.val.value.boundaries) = 2
    /\ applied.val.value.boundaries[1].level = "country"
    /\ applied.val.value.boundaries[1].name = "Y"
    /\ applied.val.value.boundaries[2].level = "suburb"

\* C27: the bbox of the GeocodeItem of a raw search result without a
\* bounding box is [lon-b, lat-b, lon+b, lat+b] with
\* b = bbox_buffer_for_rank(place rank of the result), for every rank 0..30,
\* every rank outside the table and an absent rank; the bbox of a result
\* with a bounding box is the converted box of the service.
C27_BboxOfSearchResult ==
    applied.fn = "geocode" =>
        LET raw == applied.arg
            item == applied.val.value.items[1]
            lat == raw.lat * UnitsPerDegree
            lon == raw.lon * UnitsPerDegree
            b == bbox_buffer_for_rank(raw.place_rank)
        IN  IF raw.boundingbox = <<>>
            THEN item.bbox = <<lon - b, lat - b, lon + b, lat + b>>
            ELSE item.bbox = <<raw.boundingbox[3], raw.boundingbox[1],
                               raw.boundingbox[4], raw.boundingbox[2]>>

\* a result of place rank 0 without a bounding box gets the box of the
\* default buffer, 0.01 degree, where the table gives 10 degrees
C27_Witness ==
    /\ applied.fn = "geocode"
    /\ applied.arg.boundingbox = <<>>
    /\ applied.arg.place_rank = <<0>>
    /\ applied.arg.lat = 40 /\ applied.arg.lon = 105
    /\ bbox_buffer_for_rank(<<0>>) = 1000000
    /\ applied.val.value.items[1].bbox = <<10499000, 3999000, 10501000, 4001000>>

\* C28: bbox_buffer_for_rank maps the ranks 0-4 to 10.0, 5-8 to 2.0, 9-12 to
\* 0.5, 13-16 to 0.1, 17-20 to 0.01, 21-26 to 0.005 and 27-30 to 0.001
\* degree; the ranges of the table are disjoint and cover 0..30, the buffer
\* strictly decreases from each range to the next; an absent rank and a
\* rank below 0 or above 30 yield 0.01.
C28_BufferTable ==
    /\ \A r \in 0..30 :
          Cardinality({ k \in 1..Len(PLACE_RANK_BUFFERS) :
                           PLACE_RANK_BUFFERS[k].low <= r /\ r <= PLACE_RANK_BUFFERS[k].high }) = 1
    /\ \A k \in 1..(Len(PLACE_RANK_BUFFERS) - 1) :
          /\ PLACE_RANK_BUFFERS[k].high < PLACE_RANK_BUFFERS[k + 1].low
          /\ PLACE_RANK_BUFFERS[k].buffer > PLACE_RANK_BUFFERS[k + 1].buffer
    /\ applied.fn = "bbox_buffer_for_rank" =>
          LET rank == applied.arg
              r == rank[1]
              In(low, high) == low <= r /\ r <= high
          IN  applied.val =
                  IF rank = <<>> THEN 1000
                  ELSE IF In(0, 4) THEN 1000000
                  ELSE IF In(5, 8) THEN 200000
                  ELSE IF In(9, 12) THEN 50000
                  ELSE IF In(13, 16) THEN 10000
                  ELSE IF In(17, 20) THEN 1000
                  ELSE IF In(21, 26) THEN 500
                  ELSE IF In(27, 30) THEN 100
                  ELSE 1000

\* rank 31 is looked up and yields the default
C28_Witness ==
    /\ applied.fn = "bbox_buffer_for_rank"
    /\ applied.arg = <<31>>
    /\ applied.val = 1000

\* the box [west, south, east, north] has its sides in order
Ordered(bbox) == Len(bbox) = 4 /\ bbox[1] <= bbox[3] /\ bbox[2] <= bbox[4]

\* C29: every bbox produced by geocode, reverse_geocode and bbox_from_place,
\* with any padding, is [west, south, east, north] with west <= east and
\* south <= north, be it converted from the service's [min_lat, max_lat,
\* min_lon, max_lon] box or synthesized around the point; convert_bbox of
\* [39.9138, 40.0940, -105.3014, -105.1731] is
\* [-105.3014, 39.9138, -105.1731, 40.0940].
C29_BboxOrder ==
    /\ applied.fn = "geocode" =>
          \A k \in 1..Len(applied.val.value.items) : Ordered(applied.val.value.items[k].bbox)
    /\ applied.fn \in {"reverse_geocode", "bbox_from_place"} => Ordered(applied.val.value.bbox)
    /\ applied.fn \in {"geocode", "reverse_geocode"} /\ applied.arg.boundingbox # <<>> =>
          LET bbox == IF applied.fn = "geocode" THEN applied.val.value.items[1].bbox
                      ELSE applied.val.value.bbox
              box == applied.arg.boundingbox
          IN  bbox[1] = box[3] /\ bbox[2] = box[1] /\ bbox[3] = box[4] /\ bbox[4] = box[2]
    /\ applied.fn = "convert_bbox" =>
          /\ Ordered(applied.val)
          /\ applied.arg = <<3991380, 4009400, -10530140, -10517310>> =>
                applied.val = <<-10530140, 3991380, -10517310, 4009400>>

\* reverse_geocode of a result that carries the sample box of the service
C29_Witness ==
    /\ applied.fn = "reverse_geocode"
    /\ applied.arg.boundingbox = <<3991380, 4009400, -10530140, -10517310>>
    /\ applied.val.value.bbox = <<-10530140, 3991380, -10517310, 4009400>>

\* C30: bbox_from_place with padding <= 0 returns the bbox of the first
\* result unchanged; with padding p > 0 each side is moved outward by p times
\* the width (west, east) or the height (south, north) of that bbox, so the
\* result is (1 + 2p) times as wide, encloses the bbox, and the reported
\* area is that of the padded box.  (p is written in tenths.)
C30_Padding ==
    applied.fn = "bbox_from_place" =>
        LET p == applied.arg.padding
            result == applied.val.value
            out == result.bbox
            first == geocode_result(<<"A">>, Returned(JsonList(<<applied.arg.raw>>))).value.items[1].bbox
            width == first[3] - first[1]
            height == first[4] - first[2]
        IN  /\ p <= 0 => out = first
            /\ p > 0 =>
                  /\ 10 * (first[1] - out[1]) = p * width
                  /\ 10 * (out[3] - first[3]) = p * width
                  /\ 10 * (first[2] - out[2]) = p * height
                  /\ 10 * (out[4] - first[4]) = p * height
                  /\ 10 * (out[3] - out[1]) = (10 + 2 * p) * width
                  /\ 10 * (out[4] - out[2]) = (10 + 2 * p) * height
                  /\ Encloses(out, first)
            /\ result.area_km2.width = out[3] - out[1]
            /\ result.area_km2.height = out[4] - out[2]
            /\ result.area_km2.mid_lat2 = out[2] + out[4]

\* the sample box padded by 0.1: 0.01283 degree on the west and the east,
\* 0.01802 degree on the south and the north
C30_Witness ==
    /\ applied.fn = "bbox_from_place"
    /\ applied.arg.padding = 1
    /\ applied.arg.raw.boundingbox = <<3991380, 4009400, -10530140, -10517310>>
    /\ applied.val.value.bbox = <<-10531423, 3989578, -10516027, 4011202>>
    /\ applied.val.value.area_km2.width = 15396

(***************************************************************************)
(* Properties of the distance matrix                                       *)
(***************************************************************************)
\* C31: distance_matrix over N >= 2 points, each a pair or an object with
\* lat and lon, returns an N x N matrix whose diagonal is 0 and which is
\* symmetric; computing it makes no call to the geocoder or the client and
\* leaves cache, rate limiter and transport alone.
C31_DistanceMatrix ==
    (/\ applied.fn = "distance_matrix"
     /\ Len(applied.arg) >= 2
     /\ \A i \in 1..Len(applied.arg) :
           \/ applied.arg[i].kind = "dict"
           \/ applied.arg[i].kind = "list" /\ Len(applied.arg[i].items) >= 2) =>
        LET n == Len(applied.arg)
            response == applied.val.result
        IN  /\ response.kind = "DistanceMatrixResponse"
            /\ response.count = n
            /\ Len(response.distances) = n
            /\ \A i \in 1..n :
                  /\ Len(response.distances[i]) = n
                  /\ response.distances[i][i] = 0
                  /\ \A j \in 1..n : response.distances[i][j] = response.distances[j][i]
            /\ applied.val.calls = <<>>
            /\ cache = <<>> /\ made = 0 /\ self_client = 0
            /\ last_request_time = 0 /\ lock_holder = 0 /\ departures = <<>>
            /\ pending = <<>> /\ client_log = <<>>

\* three points at different distances from each other: the equator, 45
\* degrees north over the opposite meridian and the south pole
C31_Witness ==
    /\ applied.fn = "distance_matrix"
    /\ Len(applied.arg) = 3
    /\ applied.val.result.kind = "DistanceMatrixResponse"
    /\ applied.arg[1].kind = "list" /\ applied.arg[1].items = <<0, 0>>
    /\ applied.arg[2].kind = "dict" /\ applied.arg[2].lat = 45
    /\ applied.arg[3].kind = "list" /\ applied.arg[3].items = <<-90, 0>>
    /\ applied.val.result.distances[1][2] = round1(135 * ArcPerDegree)
    /\ applied.val.result.points[2].name = "Point 2"
    /\ applied.val.result.distances[1][3] = round1(90 * ArcPerDegree)
    /\ applied.val.result.distances[2][3] = round1(135 * ArcPerDegree)
    /\ applied.val.result.distances[3][2] = round1(135 * ArcPerDegree)

(***************************************************************************)
(* Properties of the transport                                             *)
(***************************************************************************)
\* the transports that were created and not closed
Live == (1..made) \ closed

\* C32: the transport is a single shared resource: none exists before the
\* first request that misses the cache, the handle of the client is empty or
\* names a transport that was created, and at any time at most one transport
\* of the client is live (created and not closed).
C32_SingleTransport ==
    /\ self_client \in 0..made
    /\ (departures = <<>> /\ \A p \in Procs : pc[p] \in {"idle", "aclose"}) => made = 0
    /\ Cardinality(Live) <= 1

\* two requests in flight, each on a live transport of its own
C32_Witness ==
    \E p, q \in Procs :
        /\ pc[p] = "http" /\ pc[q] = "http"
        /\ client[p] # client[q]
        /\ {client[p], client[q]} \subseteq Live

\* C33: a put on a key the cache already holds, also when the cache is full,
\* replaces that entry's payload and timestamp and makes it the most recent
\* entry; nothing is evicted, the size is unchanged, and every other entry
\* keeps its payload, its timestamp and its place relative to the others.
C33_OverwriteInPlace ==
    [][\A key \in CallKeys, data \in Bodies :
          (CachePutOp(key, data) /\ InCache(cache, key))
          => /\ Len(cache') = Len(cache)
             /\ cache'[Len(cache')] = Entry(key, data, now)
             /\ Dropped(cache, cache') = <<>>
             /\ Delete(cache', key) = Delete(cache, key)]_vars

\* a put has overwritten the oldest entry of a full cache with another
\* payload, a second or more after it was stored
C33_Witness ==
    /\ last_op.op = "put"
    /\ Len(last_op.before) = CACHE_MAX_SIZE
    /\ last_op.before[1].key = last_op.key
    /\ last_op.before[1].data # last_op.value
    /\ last_op.before[1].timestamp < now
    /\ Len(cache) = CACHE_MAX_SIZE
    /\ cache[Len(cache)] = Entry(last_op.key, last_op.value, now)
    /\ cache[1] = last_op.before[2]

\* the entries of cache d that cache c does not hold as they are
Written(c, d) == SelectSeq(d, LAMBDA e : \A i \in 1..Len(c) : c[i] # e)

\* C34: an entry is created or overwritten only by a request that ends with
\* a 200 response; a request that ends with a rate-limited, API or network
\* error leaves the whole cache as it was, so that its key, if the cache did
\* not hold it, is still missing for the next identical request.
C34_OnlySuccessStores ==
    [][/\ Written(cache, cache') # <<>> =>
            /\ last_end'.kind = "ok" /\ ~last_end'.hit /\ last_end'.status = 200
            /\ Written(cache, cache') =
                   <<Entry(KeyOfCall(last_end'.n), last_end'.data, now)>>
       /\ last_end'.kind \in {"rate_limited", "api_error", "network_error"} =>
            /\ cache' = cache
            /\ cache_get(cache', KeyOfCall(last_end'.n), now).value =
                   cache_get(cache, KeyOfCall(last_end'.n), now).value]_vars

\* a request has ended with an API error after a retry while the cache holds
\* another key and not its own
C34_Witness ==
    /\ last_end.kind = "api_error"
    /\ last_end.calls = 2
    /\ cache # <<>>
    /\ ~InCache(cache, KeyOfCall(last_end.n))

\* C35: a request answered from the cache does not enter the rate limiter:
\* it returns in the step that starts it, without waiting, without touching
\* the lock or its queue, without changing the time of the last departure,
\* and without creating (or taking) a transport.
C35_HitSkipsLimiter ==
    [][\A p \in Procs, n \in 1..Len(Calls) :
          (StartRequest(p, n) /\ cache_get(cache, KeyOfCall(n), now).value # None)
          => /\ last_end'.hit /\ last_end'.p = p /\ last_end'.calls = 0
             /\ pc'[p] = "idle"
             /\ UNCHANGED <<last_request_time, lock_holder, waiters, wake,
                            departures, issued, calls>>
             /\ UNCHANGED <<self_client, made, closed, client>>]_vars

\* a request was answered from the cache while another task sleeps in the
\* rate limiter with the lock, less than RATE_LIMIT_SECONDS after the last
\* departure, and while the client has no transport, the one it had being closed
C35_Witness ==
    /\ last_end.hit
    /\ lock_holder # 0 /\ lock_holder # last_end.p
    /\ pc[lock_holder] = "rl_sleep"
    /\ now - last_request_time < RATE_LIMIT_SECONDS
    /\ self_client = 0 /\ made > 0

(***************************************************************************)
(* Properties of the Geocoder over the cache                               *)
(***************************************************************************)
\* C36: a 200 response with an empty result sequence is cached like any
\* other payload: when a geocode failed with not-found and the next geocode
\* asks for the same key (the same query up to letter case and whitespace)
\* no later than CACHE_TTL_SECONDS after that empty answer was stored, it
\* fails with not-found again and is answered from the cache, with no
\* outbound HTTP call.
C36_NotFoundCached ==
    (/\ task = NoTask
     /\ outcome.op.name = "geocode"
     /\ previous # <<>>
     /\ fetches # <<>>
     /\ fetches[1].key = previous[1].key
     /\ fetches[1].at - previous[1].stored <= CACHE_TTL_SECONDS)
    => /\ outcome.result = Raised("ValueError", "NO_RESULTS", <<outcome.op.query>>)
       /\ Len(fetches) = 1
       /\ fetches[1].status = 0
       /\ fetches[1].stored = previous[1].stored

\* geocode("A") got an empty 200 response and failed; geocode(" a"),
\* CACHE_TTL_SECONDS later, failed like it without a call of the service
C36_Witness ==
    /\ task = NoTask
    /\ outcome.op.name = "geocode"
    /\ outcome.op.query = <<" ", "a">>
    /\ previous # <<>>
    /\ previous[1].query = <<"A">>
    /\ fetches # <<>>
    /\ fetches[1].at - previous[1].stored = CACHE_TTL_SECONDS
    /\ fetches[1].status = 0
    /\ outcome.result.kind = "raise" /\ outcome.result.msg = "NO_RESULTS"

\* the positions of the queries of list l that pass _validate_query, the
\* position among the client calls of the search for the i-th query, and
\* the key of that search
ValidAt(l) == { i \in 1..Len(l) : validate_query(l[i]).kind # "raise" }
CallOf(l, i) == Cardinality({ j \in ValidAt(l) : j <= i })
KeyAt(l, i, limit) == KeyOfSearch(SearchCall(l[i], limit))

\* two items of a batch have the same outcome: the same results, or an
\* error with the same message (up to the query text it quotes)
SameOutcome(a, b) ==
    /\ a.results = b.results
    /\ (a.error.kind = "None") = (b.error.kind = "None")
    /\ a.error.kind # "None" => a.error.msg = b.error.msg

\* a batch_geocode has returned; every outbound call of it was answered
\* with 200 at the first attempt, its keys are no more than the cache can
\* hold, and it took no longer than CACHE_TTL_SECONDS
BatchInTtl ==
    /\ task = NoTask
    /\ outcome.op.name = "batch_geocode"
    /\ outcome.result.kind = "return"
    /\ \A k \in 1..Len(fetches) : fetches[k].status \in {0, 200} /\ fetches[k].attempts <= 1
    /\ Cardinality({ KeyAt(outcome.op.queries, i, outcome.op.limit) :
                        i \in ValidAt(outcome.op.queries) }) <= CACHE_MAX_SIZE
    /\ fetches # <<>> => fetches[Len(fetches)].done - fetches[1].at <= CACHE_TTL_SECONDS

\* the outbound calls of the batch are no more than its distinct keys
FewFetches ==
    Cardinality({ k \in 1..Len(fetches) : fetches[k].status # 0 })
        <= Cardinality({ KeyAt(outcome.op.queries, i, outcome.op.limit) :
                            i \in ValidAt(outcome.op.queries) })

\* C40 as stated: in such a batch the outbound calls are no more than the
\* distinct keys, and every query that repeats an earlier one of the batch
\* up to letter case and whitespace is answered from the cache with the
\* outcome of the earlier one.
C40_RepeatsFromCache ==
    BatchInTtl =>
        LET l == outcome.op.queries
            items == outcome.result.value.items
        IN  /\ FewFetches
            /\ \A i, j \in ValidAt(l) :
                  (i < j /\ KeyAt(l, i, outcome.op.limit) = KeyAt(l, j, outcome.op.limit))
                  => /\ fetches[CallOf(l, j)].status = 0
                     /\ SameOutcome(items[i], items[j])

\* C40, amended: in such a batch the outbound calls are no more than the
\* distinct keys, and every query that repeats an earlier one which the
\* batch fetched from the service is answered from the cache with the
\* outcome of that one.
C40_RepeatsOfFetched ==
    BatchInTtl =>
        LET l == outcome.op.queries
            items == outcome.result.value.items
        IN  /\ FewFetches
            /\ \A i, j \in ValidAt(l) :
                  (/\ i < j
                   /\ KeyAt(l, i, outcome.op.limit) = KeyAt(l, j, outcome.op.limit)
                   /\ fetches[CallOf(l, i)].status = 200)
                  => /\ fetches[CallOf(l, j)].status = 0
                     /\ SameOutcome(items[i], items[j])

\* the batch ["A", "b", " a"] fetched "A" and "b" and answered " a" from the
\* cache, CACHE_TTL_SECONDS after it began
C40_Witness ==
    /\ BatchInTtl
    /\ outcome.op.queries = << <<"A">>, <<"b">>, <<" ", "a">> >>
    /\ Len(fetches) = 3
    /\ fetches[1].status = 200 /\ fetches[2].status = 200 /\ fetches[3].status = 0
    /\ fetches[3].done - fetches[1].at = CACHE_TTL_SECONDS
    /\ outcome.result.value.items[1].error.kind = "None"
    /\ outcome.result.value.items[3].error.kind = "None"

(***************************************************************************)
(* Properties of concurrent requests                                       *)
(***************************************************************************)
\* C37: requests are not coalesced. Two tasks whose requests have the same
\* key and are both past the cache check each make their own outbound call,
\* the calls being RATE_LIMIT_SECONDS or more apart; a request that missed
\* the cache returns a payload only from a 200 response to a call of its
\* own, and when it does the cache holds exactly one entry under its key,
\* with its payload and the time of its end, whatever a concurrent request
\* with the same key stored before.
C37_NotCoalesced ==
    /\ \A p, q \in Procs :
          (p # q /\ pc[p] = "http" /\ pc[q] = "http"
                 /\ KeyOfCall(req[p]) = KeyOfCall(req[q]))
          => /\ calls[p] >= 1 /\ calls[q] >= 1
             /\ Abs(issued[p] - issued[q]) >= RATE_LIMIT_SECONDS
    /\ (last_end.kind = "ok" /\ ~last_end.hit)
       => /\ last_end.calls >= 1
          /\ last_end.answers.final = 1
          /\ Cardinality(EntriesOf(cache, KeyOfCall(last_end.n))) = 1
          /\ \A i \in EntriesOf(cache, KeyOfCall(last_end.n)) :
                cache[i] = Entry(KeyOfCall(last_end.n), last_end.data, now)

\* two requests were started and two calls were issued, none of them a
\* retry; the second request to end got a list, and the cache held one
\* entry before its end and holds one after it: the entry the first request
\* stored while the second was under way
C37_Witness ==
    /\ last_end.kind = "ok" /\ ~last_end.hit
    /\ last_end.data = "list"
    /\ last_end.calls = 1
    /\ last_end.size = 1 /\ Len(cache) = 1
    /\ Len(departures) = 2
    /\ budget = [reqs |-> MaxReqs - 2, faults |-> 0]
    /\ \A p \in Procs : pc[p] = "idle"

\* C38: no HTTP attempt is issued on a transport that close() has closed: a
\* task that is in client.get never holds a transport on which aclose() was
\* called before the attempt was issued.
C38_NoAttemptOnClosed ==
    \A p \in Procs : pc[p] = "http" => ~on_closed[p]

\* a request went to sleep between two attempts, close() ran to its end
\* meanwhile, and the next attempt was issued on the transport it closed
C38_Witness ==
    \E p \in Procs :
        /\ pc[p] = "http"
        /\ on_closed[p]
        /\ calls[p] = 2
        /\ client[p] \in closed
        /\ self_client = 0
        /\ \A q \in Procs : pc[q] # "aclose"

====
